---- MODULE Spec2Model ----
(***************************************************************************)
(* Geometry buffer management of xeogl (src/src/geometry/geometry.js).     *)
(*                                                                         *)
(* The module models SceneVertexBufs, the pool that batches the vertex     *)
(* arrays of combined geometries into shared WebGL buffers, and the        *)
(* Geometry component that owns one renderer state.                        *)
(*                                                                         *)
(* Representation.                                                         *)
(*   - A vertex attribute array (positions, normals, colors, uv) is the    *)
(*     record [type, length, val]: its typed-array constructor, its        *)
(*     length and a token that stands for its element values.  NullArray   *)
(*     stands for null.                                                    *)
(*   - An index array is [type, data] with data the sequence of index      *)
(*     values, because the pool does arithmetic on every one of them.      *)
(*   - A JavaScript object used as a map (geometries,                      *)
(*     geometryIndicesOffsets, geometryVertexBufs) is a TLA+ function      *)
(*     whose DOMAIN is the set of own property keys; the enumeration       *)
(*     order of for-in is kept separately as the sequence geometryKeys.    *)
(*   - A geometry id n > 0 stands for the integer-like property key        *)
(*     String(n); an id n < 0 stands for a key that is not an array        *)
(*     index (such as "g1", "g2").                                         *)
(***************************************************************************)
EXTENDS Integers, Sequences, FiniteSets, TLC

VARIABLES
    bigIndicesSupported,    \* WEBGL_INFO.SUPPORTED_EXTENSIONS["OES_element_index_uint"]
    hasPositions,           \* SceneVertexBufs constructor arguments
    hasNormals,
    hasColors,
    hasUVs,
    quantized,
    geom,                   \* the renderer states (geometry objects) by id
    geometries,             \* pool: id -> geometry (kept as the set of keys)
    geometryKeys,           \* pool: for-in enumeration order of geometries
    geometryIndicesOffsets, \* pool: id -> offset
    newGeometries,          \* pool: list of added geometries (its elements)
    geometryVertexBufs,     \* pool: id -> VertexBufs (index into chunks)
    needRebuild,
    needAppend,
    positions,              \* pool: accumulation arrays
    normals,
    colors,
    uv,
    vertexBufs,             \* pool: the VertexBufs being filled (0 is null)
    chunks,                 \* the VertexBufs objects made by the latest build
    indicesBufCombined,     \* geometry.indicesBufCombined, by id
    built,                  \* whether the latest call ran build()
    diagnostics,            \* what the latest call reported (warn / console.error)
    insertionOrder,         \* registered ids in the order of their addGeometry
    builtOrder,             \* insertionOrder at the latest build
    builtOffsets,           \* geometryIndicesOffsets as the latest build left it
    component,              \* the xeogl.Geometry component whose _state is geom[Self]
    scene                   \* scene._sceneVertexBufs and the combined components made in it

vars == <<bigIndicesSupported, hasPositions, hasNormals, hasColors, hasUVs,
          quantized, geom, geometries, geometryKeys, geometryIndicesOffsets,
          newGeometries, geometryVertexBufs, needRebuild, needAppend,
          positions, normals, colors, uv, vertexBufs, chunks,
          indicesBufCombined, built, diagnostics,
          insertionOrder, builtOrder, builtOffsets, component, scene>>

----------------------------------------------------------------------------
(* Bounds of the model *)

SmallVertexCount == 3       \* vertices of a small geometry
LargeVertexCount == 65535   \* vertices of a large geometry

(* Inputs *)

Ids == {-2, -1, 1}

VertexCounts == {SmallVertexCount, LargeVertexCount}

Signatures ==
    { [hasPositions |-> TRUE, hasNormals |-> TRUE, hasColors |-> TRUE,
       hasUVs |-> TRUE, quantized |-> FALSE] }

----------------------------------------------------------------------------
(* Values *)

(* The content of an array: the values v it was made from and the encoding  *)
(* they went through.                                                       *)
Content(enc, v) == [enc |-> enc, v |-> v]

NullArray == [type |-> "null", length |-> 0, val |-> Content("null", 0)]

NullIndices == [type |-> "null", data |-> <<>>]

NullBuf == [type |-> "null", itemSize |-> 0, data |-> <<>>]

EmptyMap == [x \in {} |-> 0]

Min(a, b) == IF a < b THEN a ELSE b

SeqToSet(s) == { s[i] : i \in 1..Len(s) }

RECURSIVE SumLen(_)
SumLen(segs) ==
    IF segs = <<>> THEN 0 ELSE Head(segs).length + SumLen(Tail(segs))

(* The largest value an element of a Uint16Array holds. *)
MaxUint16 == 65535

(* CHUNK_LEN without wide indices.  With wide indices CHUNK_LEN is          *)
(* Number.MAX_SAFE_INTEGER / 6 (about 1.5e15), which is more than the       *)
(* length of any JavaScript array (at most 2^32 - 1) and more than any      *)
(* Uint32Array element: ExceedsChunkLen and OutOfRange state what the       *)
(* comparisons against it evaluate to.                                      *)
CHUNK_LEN == 64000 * 4

ExceedsChunkLen(n) == IF bigIndicesSupported THEN FALSE ELSE n > CHUNK_LEN

(* indices[i] > (CHUNK_LEN / 3), for an element read back from the array *)
OutOfRange(v) == IF bigIndicesSupported THEN FALSE ELSE 3 * v > CHUNK_LEN

(* The value an element of the index array holds after v is stored in it:   *)
(* a Uint16Array keeps v modulo 2^16.  A Uint32Array keeps v modulo 2^32,    *)
(* and every value of this model is below 2^31.                             *)
StoreIndex(v) == IF bigIndicesSupported THEN v ELSE v % (MaxUint16 + 1)

IndexArrayTypeName == IF bigIndicesSupported THEN "Uint32Array" ELSE "Uint16Array"

(* The largest index value the active index width represents.  With wide    *)
(* indices it is 2^32 - 1, above every value of this model.                 *)
FitsIndexWidth(v) == IF bigIndicesSupported THEN TRUE ELSE v <= MaxUint16

----------------------------------------------------------------------------
(* Renderer states handed to the pool: nv vertices, attribute arrays as the  *)
(* signature of the pool prescribes, three indices.  A state built from a    *)
(* configuration without indices keeps indices null.                         *)

GeometryState(sig, nv, withIndices) ==
    [ positions |-> IF sig.hasPositions
                    THEN [type |-> IF sig.quantized THEN "Uint16Array" ELSE "Float32Array",
                          length |-> 3 * nv,
                          val |-> Content(IF sig.quantized THEN "quantized" ELSE "raw", 0)]
                    ELSE NullArray,
      normals   |-> IF sig.hasNormals
                    THEN [type |-> IF sig.quantized THEN "Int8Array" ELSE "Float32Array",
                          length |-> IF sig.quantized THEN 2 * nv ELSE 3 * nv,
                          val |-> Content(IF sig.quantized THEN "oct" ELSE "raw", 0)]
                    ELSE NullArray,
      colors    |-> IF sig.hasColors
                    THEN [type |-> "Float32Array", length |-> 4 * nv,
                          val |-> Content("raw", 0)]
                    ELSE NullArray,
      uv        |-> IF sig.hasUVs
                    THEN [type |-> IF sig.quantized THEN "Uint16Array" ELSE "Float32Array",
                          length |-> 2 * nv,
                          val |-> Content(IF sig.quantized THEN "quantized" ELSE "raw", 0)]
                    ELSE NullArray,
      indices   |-> IF withIndices
                    THEN [type |-> "Uint16Array",
                          data |-> <<0, 1, Min(nv - 1, MaxUint16)>>]
                    ELSE NullIndices ]

GeometryStates(sig, counts) ==
    { GeometryState(sig, nv, TRUE) : nv \in counts }
        \cup { GeometryState(sig, SmallVertexCount, FALSE) }

----------------------------------------------------------------------------
(* JavaScript property order: integer-like keys in ascending numeric order,  *)
(* then the other keys in the order of their creation.                      *)

IsArrayIndex(id) == id > 0

RECURSIVE InsertIntKey(_, _)
InsertIntKey(keys, id) ==
    IF keys = <<>> THEN <<id>>
    ELSE IF IsArrayIndex(Head(keys)) /\ Head(keys) < id
         THEN <<Head(keys)>> \o InsertIntKey(Tail(keys), id)
         ELSE <<id>> \o keys

(* A property order that puts a new key first or last by turns. *)
PutKeyByTurns(keys, id) ==
    IF id \in SeqToSet(keys) THEN keys
    ELSE IF Len(keys) % 2 = 0 THEN <<id>> \o keys
    ELSE Append(keys, id)

PutKey(keys, id) ==
    IF id \in SeqToSet(keys) THEN keys
    ELSE IF IsArrayIndex(id) THEN InsertIntKey(keys, id)
    ELSE Append(keys, id)

DeleteKey(keys, id) == SelectSeq(keys, LAMBDA k : k # id)

MapDelete(f, id) == [x \in (DOMAIN f) \ {id} |-> f[x]]

MapPut(f, id, v) == [x \in (DOMAIN f) \cup {id} |-> IF x = id THEN v ELSE f[x]]

----------------------------------------------------------------------------
(* SceneVertexBufs.createBufs and SceneVertexBufs.build.  A build is a fold   *)
(* of BuildGeometry over the for-in order; its running state st holds what   *)
(* the loop reads and writes.                                               *)

NewVertexBufs ==
    [positionsBuf |-> NullBuf, normalsBuf |-> NullBuf, uvBuf |-> NullBuf,
     colorsBuf |-> NullBuf, quantized |-> quantized]

(* new xeogl.renderer.ArrayBuffer(gl, gl.ARRAY_BUFFER, new T(array), ...):  *)
(* the accumulated elements, each already a value of type T.               *)
NewArrayBuffer(type, array, itemSize) ==
    [type |-> type, itemSize |-> itemSize, data |-> array]

(* A createBufs that leaves the accumulation arrays as they are. *)
createBufsKeepingArrays(st) ==
    LET k  == st.vertexBufs
        vb == st.chunks[k]
    IN  [st EXCEPT !.chunks[k] =
           [vb EXCEPT
              !.positionsBuf = IF hasPositions
                  THEN NewArrayBuffer(IF quantized THEN "Uint16Array" ELSE "Float32Array",
                                      st.positions, 3)
                  ELSE @,
              !.normalsBuf = IF hasNormals
                  THEN NewArrayBuffer(IF quantized THEN "Int8Array" ELSE "Float32Array",
                                      st.normals, 3)
                  ELSE @,
              !.colorsBuf = IF hasColors
                  THEN NewArrayBuffer("Float32Array", st.colors, 4)
                  ELSE @,
              !.uvBuf = IF hasUVs
                  THEN NewArrayBuffer(IF quantized THEN "Uint16Array" ELSE "Float32Array",
                                      st.uv, 2)
                  ELSE @]]

createBufs(st) ==
    LET k  == st.vertexBufs
        vb == st.chunks[k]
        nb == [vb EXCEPT
                 !.positionsBuf = IF hasPositions
                     THEN NewArrayBuffer(IF quantized THEN "Uint16Array" ELSE "Float32Array",
                                         st.positions, 3)
                     ELSE @,
                 !.normalsBuf = IF hasNormals
                     THEN NewArrayBuffer(IF quantized THEN "Int8Array" ELSE "Float32Array",
                                         st.normals, 3)
                     ELSE @,
                 !.colorsBuf = IF hasColors
                     THEN NewArrayBuffer("Float32Array", st.colors, 4)
                     ELSE @,
                 !.uvBuf = IF hasUVs
                     THEN NewArrayBuffer(IF quantized THEN "Uint16Array" ELSE "Float32Array",
                                         st.uv, 2)
                     ELSE @]
    IN  [st EXCEPT !.chunks[k] = nb,
                   !.positions = IF hasPositions THEN <<>> ELSE @,
                   !.normals = IF hasNormals THEN <<>> ELSE @,
                   !.colors = IF hasColors THEN <<>> ELSE @,
                   !.uv = IF hasUVs THEN <<>> ELSE @]

(* The elements of an attribute array of geometry id, as pushed one by one. *)
Pushed(id, array) == [id |-> id, length |-> array.length, val |-> array.val]

(* The index array build() puts into geometry.indicesBufCombined. *)
AdjustedIndices(geometry, indicesOffset) ==
    IF indicesOffset # 0
    THEN [type |-> IndexArrayTypeName,
          data |-> [i \in 1..Len(geometry.indices.data) |->
                       StoreIndex(geometry.indices.data[i] + indicesOffset)]]
    ELSE geometry.indices

(* The console.error calls of the adjustment loop. *)
OutOfRangeReports(id, geometry, indicesOffset) ==
    IF indicesOffset # 0
    THEN { [kind |-> "out of range", id |-> id, value |-> AdjustedIndices(geometry, indicesOffset).data[i]] :
             i \in { j \in 1..Len(geometry.indices.data) :
                       OutOfRange(AdjustedIndices(geometry, indicesOffset).data[j]) } }
    ELSE {}

NeedNew(st, geometry) ==
    st.vertexBufs = 0 \/ ExceedsChunkLen(SumLen(st.positions) + geometry.positions.length)

BuildGeometry(st, id) ==
    LET geometry == geom[id]
        s0 == IF NeedNew(st, geometry)
              THEN LET c == IF st.vertexBufs # 0 THEN createBufs(st) ELSE st
                   IN  [c EXCEPT !.chunks = Append(@, NewVertexBufs),
                                 !.vertexBufs = Len(c.chunks) + 1,
                                 !.indicesOffset = 0]
              ELSE st
    IN  [s0 EXCEPT
           !.geometryVertexBufs = MapPut(@, id, s0.vertexBufs),
           !.positions = IF hasPositions THEN Append(@, Pushed(id, geometry.positions)) ELSE @,
           !.normals = IF hasNormals THEN Append(@, Pushed(id, geometry.normals)) ELSE @,
           !.colors = IF hasColors THEN Append(@, Pushed(id, geometry.colors)) ELSE @,
           !.uv = IF hasUVs THEN Append(@, Pushed(id, geometry.uv)) ELSE @,
           !.geometryIndicesOffsets = MapPut(@, id, s0.indicesOffset),
           !.indicesBufCombined = [@ EXCEPT ![id] = AdjustedIndices(geometry, s0.indicesOffset)],
           !.diagnostics = @ \cup OutOfRangeReports(id, geometry, s0.indicesOffset),
           !.indicesOffset = @ + (geometry.positions.length \div 3)]

RECURSIVE BuildLoop(_, _)
BuildLoop(st, keys) ==
    IF keys = <<>> THEN st
    ELSE BuildLoop(BuildGeometry(st, Head(keys)), Tail(keys))

BuildStart ==
    [vertexBufs |-> 0, chunks |-> <<>>, indicesOffset |-> 0,
     positions |-> positions, normals |-> normals, colors |-> colors, uv |-> uv,
     geometryVertexBufs |-> EmptyMap,
     geometryIndicesOffsets |-> geometryIndicesOffsets,
     indicesBufCombined |-> indicesBufCombined,
     diagnostics |-> {}]

BuildResult ==
    LET st == BuildLoop(BuildStart, geometryKeys)
    IN  IF st.vertexBufs # 0 THEN createBufs(st) ELSE st

(* build(): the pool after the call. *)
build ==
    LET st == BuildResult
    IN  /\ geometryVertexBufs' = st.geometryVertexBufs
        /\ geometryIndicesOffsets' = st.geometryIndicesOffsets
        /\ indicesBufCombined' = st.indicesBufCombined
        /\ vertexBufs' = st.vertexBufs
        /\ chunks' = st.chunks
        /\ positions' = st.positions
        /\ normals' = st.normals
        /\ colors' = st.colors
        /\ uv' = st.uv
        /\ diagnostics' = st.diagnostics
        /\ needRebuild' = FALSE
        /\ needAppend' = FALSE
        /\ built' = TRUE
        /\ builtOrder' = insertionOrder
        /\ builtOffsets' = st.geometryIndicesOffsets

noBuild ==
    /\ UNCHANGED <<geometryVertexBufs, geometryIndicesOffsets, indicesBufCombined,
                   vertexBufs, chunks, positions, normals, colors, uv,
                   needRebuild, needAppend, builtOrder, builtOffsets>>
    /\ built' = FALSE
    /\ diagnostics' = {}

----------------------------------------------------------------------------
(* Return values *)

(* undefined, nullVertexBufs, a number, or one of the VertexBufs of chunks   *)
(* (by its index).                                                          *)

Value(kind, value) == [kind |-> kind, value |-> value]

(* return geometryIndicesOffsets[geometry.id], read after the call *)
getIndicesOffsetReturn(g) ==
    IF g \in DOMAIN geometryIndicesOffsets
    THEN Value("number", geometryIndicesOffsets[g])
    ELSE Value("undefined", 0)

(* what getVertexBufs(geometry) returns, read after the call *)
getVertexBufsReturn(g) ==
    IF g \notin geometries THEN Value("nullVertexBufs", 0)
    ELSE IF g \in DOMAIN geometryVertexBufs
         THEN Value("VertexBufs", geometryVertexBufs[g])
         ELSE Value("undefined", 0)

----------------------------------------------------------------------------
(* The operations of SceneVertexBufs *)

(* A pool just constructed, on either platform, and the geometries that     *)
(* will be handed to it.  With wide indices no comparison of the pool        *)
(* depends on the vertex counts, and the geometries are the small ones.      *)
NoComponent == [created |-> FALSE]

(* A scene before its first combined component. *)
NoScene == [_sceneVertexBufs |-> EmptyMap, components |-> EmptyMap]

Init ==
    /\ bigIndicesSupported \in BOOLEAN
    /\ \E sig \in Signatures :
         /\ hasPositions = sig.hasPositions
         /\ hasNormals = sig.hasNormals
         /\ hasColors = sig.hasColors
         /\ hasUVs = sig.hasUVs
         /\ quantized = sig.quantized
         /\ geom \in [Ids -> GeometryStates(sig, IF bigIndicesSupported
                                                THEN {SmallVertexCount}
                                                ELSE VertexCounts)]
    /\ component = NoComponent
    /\ scene = NoScene
    /\ geometries = {}
    /\ geometryKeys = <<>>
    /\ geometryIndicesOffsets = EmptyMap
    /\ newGeometries = {}
    /\ geometryVertexBufs = EmptyMap
    /\ needRebuild = FALSE
    /\ needAppend = FALSE
    /\ positions = <<>>
    /\ normals = <<>>
    /\ colors = <<>>
    /\ uv = <<>>
    /\ vertexBufs = 0
    /\ chunks = <<>>
    /\ indicesBufCombined = [id \in Ids |-> NullIndices]
    /\ built = FALSE
    /\ diagnostics = {}
    /\ insertionOrder = <<>>
    /\ builtOrder = <<>>
    /\ builtOffsets = EmptyMap

platform == <<bigIndicesSupported, hasPositions, hasNormals, hasColors, hasUVs,
              quantized, geom, scene>>

addGeometry(g) ==
    /\ built' = FALSE
    /\ IF geom[g].positions = NullArray \/ geom[g].indices = NullIndices
       THEN /\ diagnostics' = {[kind |-> "Ignoring geometry with no positions or indices",
                                id |-> g, value |-> 0]}
            /\ UNCHANGED <<geometries, geometryKeys, geometryIndicesOffsets,
                           newGeometries, needAppend, insertionOrder>>
       ELSE /\ geometries' = geometries \cup {g}
            /\ geometryKeys' = PutKey(geometryKeys, g)
            /\ geometryIndicesOffsets' = MapPut(geometryIndicesOffsets, g, 0)
            /\ newGeometries' = newGeometries \cup {g}
            /\ needAppend' = TRUE
            /\ insertionOrder' = IF g \in geometries THEN insertionOrder
                                 ELSE Append(insertionOrder, g)
            /\ diagnostics' = {}
    /\ UNCHANGED <<platform, geometryVertexBufs, needRebuild, positions, normals,
                   colors, uv, vertexBufs, chunks, indicesBufCombined, builtOrder,
                   builtOffsets, component>>

(* A getIndicesOffset that rebuilds after removals only. *)
getIndicesOffsetAfterRemovalsOnly(g) ==
    /\ IF needRebuild THEN build ELSE noBuild
    /\ UNCHANGED <<platform, geometries, geometryKeys, newGeometries, insertionOrder,
                   component>>

getIndicesOffset(g) ==
    /\ IF needRebuild \/ needAppend THEN build ELSE noBuild
    /\ UNCHANGED <<platform, geometries, geometryKeys, newGeometries, insertionOrder,
                   component>>

(* A getVertexBufs that rebuilds for every registered geometry. *)
getVertexBufsRebuildingAlways(g) ==
    /\ IF g \notin geometries THEN noBuild ELSE build
    /\ UNCHANGED <<platform, geometries, geometryKeys, newGeometries, insertionOrder,
                   component>>

getVertexBufs(g) ==
    /\ IF g \notin geometries
       THEN noBuild
       ELSE IF needRebuild \/ needAppend THEN build ELSE noBuild
    /\ UNCHANGED <<platform, geometries, geometryKeys, newGeometries, insertionOrder,
                   component>>

(* A removeGeometry without the registration guard. *)
removeGeometryUnguarded(g) ==
    /\ built' = FALSE
    /\ diagnostics' = {}
    /\ geometries' = geometries \ {g}
    /\ geometryKeys' = DeleteKey(geometryKeys, g)
    /\ geometryIndicesOffsets' = MapDelete(geometryIndicesOffsets, g)
    /\ needRebuild' = TRUE
    /\ insertionOrder' = DeleteKey(insertionOrder, g)
    /\ UNCHANGED <<platform, newGeometries, geometryVertexBufs, needAppend, positions,
                   normals, colors, uv, vertexBufs, chunks, indicesBufCombined,
                   builtOrder, builtOffsets, component>>

(* A removeGeometry that leaves needRebuild as it is. *)
removeGeometryWithoutRebuild(g) ==
    /\ built' = FALSE
    /\ diagnostics' = {}
    /\ IF g \notin geometries
       THEN UNCHANGED <<geometries, geometryKeys, geometryIndicesOffsets, insertionOrder>>
       ELSE /\ geometries' = geometries \ {g}
            /\ geometryKeys' = DeleteKey(geometryKeys, g)
            /\ geometryIndicesOffsets' = MapDelete(geometryIndicesOffsets, g)
            /\ insertionOrder' = DeleteKey(insertionOrder, g)
    /\ UNCHANGED <<platform, newGeometries, geometryVertexBufs, needRebuild, needAppend,
                   positions, normals, colors, uv, vertexBufs, chunks, indicesBufCombined,
                   builtOrder, builtOffsets, component>>

removeGeometry(g) ==
    /\ built' = FALSE
    /\ diagnostics' = {}
    /\ IF g \notin geometries
       THEN UNCHANGED <<geometries, geometryKeys, geometryIndicesOffsets,
                        needRebuild, insertionOrder>>
       ELSE /\ geometries' = geometries \ {g}
            /\ geometryKeys' = DeleteKey(geometryKeys, g)
            /\ geometryIndicesOffsets' = MapDelete(geometryIndicesOffsets, g)
            /\ needRebuild' = TRUE
            /\ insertionOrder' = DeleteKey(insertionOrder, g)
    /\ UNCHANGED <<platform, newGeometries, geometryVertexBufs, needAppend, positions,
                   normals, colors, uv, vertexBufs, chunks, indicesBufCombined,
                   builtOrder, builtOffsets, component>>

(* A context-restored handler that rebuilds only what is pending. *)
webglContextRestoredWhenPending ==
    /\ IF needRebuild \/ needAppend THEN build ELSE noBuild
    /\ UNCHANGED <<platform, geometries, geometryKeys, newGeometries, insertionOrder,
                   component>>

(* scene.canvas.on("webglContextRestored", build) *)
webglContextRestored ==
    /\ build
    /\ UNCHANGED <<platform, geometries, geometryKeys, newGeometries, insertionOrder,
                   component>>

Next ==
    \/ \E g \in Ids : addGeometry(g)
    \/ \E g \in Ids : removeGeometry(g)
    \/ \E g \in Ids : getIndicesOffset(g)
    \/ \E g \in Ids : getVertexBufs(g)
    \/ webglContextRestored

Spec == Init /\ [][Next]_vars

----------------------------------------------------------------------------
(* xeogl.Geometry: one component, whose renderer state (this._state) is      *)
(* geom[Self].  diagnostics holds what the latest call sent out: errors,     *)
(* events fired, imageDirty().                                              *)

Self == -1

(* The configurations handed to the constructor.  quantized and combined    *)
(* are not given, true or false; primitive is not given, a supported name    *)
(* or an unsupported one; attributes tells whether positions, normals,       *)
(* colors and uv are given; indices are not given or an array of the type    *)
(* named; ghostEdgeThreshold is not given or a number of degrees.            *)
DefaultGhostEdgeThreshold == 2

OtherGhostEdgeThreshold == 10

ConstructCfgs ==
    [quantized : {"absent", "true", "false"},
     combined : {"absent", "true", "false"},
     primitive : {"absent", "lines", "quads"},
     attributes : BOOLEAN,
     indices : {"absent", "Uint16Array", "Uint32Array"},
     ghostEdgeThreshold : [given : {FALSE}, degrees : {0}]
                            \cup [given : {TRUE}, degrees : {0, OtherGhostEdgeThreshold}]]

(* The configurations of the components whose accessors are exercised:      *)
(* quantized or not, combined or not, with all the attributes or none, with  *)
(* 16-bit indices.                                                          *)
Cfgs ==
    { cfg \in ConstructCfgs :
        /\ cfg.quantized # "absent"
        /\ cfg.combined # "absent"
        /\ cfg.primitive = "absent"
        /\ cfg.indices = "Uint16Array"
        /\ ~cfg.ghostEdgeThreshold.given }

(* !!cfg.quantized, !!cfg.combined *)
Truthy(option) == option = "true"

CfgSignature(cfg) ==
    [hasPositions |-> cfg.attributes, hasNormals |-> cfg.attributes,
     hasColors |-> cfg.attributes, hasUVs |-> cfg.attributes,
     quantized |-> Truthy(cfg.quantized)]

SupportedPrimitives ==
    {"points", "lines", "line-loop", "line-strip", "triangles", "triangle-strip",
     "triangle-fan"}

(* The arrays handed to the setters: the lengths of the attribute arrays of  *)
(* the component, and one that is none of them.                              *)
NewArrays ==
    [length : {2 * SmallVertexCount, 3 * SmallVertexCount, 4 * SmallVertexCount,
               3 * SmallVertexCount + 1},
     v : {1}]

Report(kind, id) == [kind |-> kind, id |-> id, value |-> 0]

NullMatrix == [kind |-> "null", of |-> "null"]

DecodeMatrix(attribute) == [kind |-> "decode", of |-> attribute]

(* getBounds(array, stride), quantizeVec3(array, min, max) and               *)
(* quantizeVec2(array, min, max), for arrays of integers below 2^24, which    *)
(* Float32Array elements (min, max) hold exactly and whose differences are    *)
(* exact.                                                                    *)

(* The axis of element i of an array of the given stride, both from 1. *)
Axis(i, stride) == ((i - 1) % stride) + 1

AxisValues(array, stride, j) ==
    { array[i] : i \in { k \in 1..Len(array) : Axis(k, stride) = j } }

getBounds(array, stride) ==
    [min |-> [j \in 1..stride |->
                CHOOSE x \in AxisValues(array, stride, j) :
                   \A y \in AxisValues(array, stride, j) : x <= y],
     max |-> [j \in 1..stride |->
                CHOOSE x \in AxisValues(array, stride, j) :
                   \A y \in AxisValues(array, stride, j) : x >= y]]

RECURSIVE Pow2(_)
Pow2(n) == IF n = 0 THEN 1 ELSE 2 * Pow2(n - 1)

(* The bits of the significand of an element of a Float32Array. *)
Float32Bits == 24

(* The least shift k with a * 2^k / b at least 2^(Float32Bits - 1). *)
RECURSIVE Float32Shift(_, _, _)
Float32Shift(a, b, k) ==
    IF a * Pow2(k) >= b * Pow2(Float32Bits - 1) THEN k ELSE Float32Shift(a, b, k + 1)

(* new Float32Array([a / b]) for integers a > 0 and b >= 0: Infinity when b   *)
(* is 0, otherwise the quotient rounded to the nearest number num / 2^shift   *)
(* with a significand of Float32Bits bits, ties to the even one.             *)
Float32Quotient(a, b) ==
    IF b = 0 THEN [inf |-> TRUE, num |-> 0, shift |-> 0]
    ELSE LET k == Float32Shift(a, b, 0)
             n == a * Pow2(k)
             lo == n \div b
             rest == n % b
         IN  [inf |-> FALSE,
              num |-> IF 2 * rest > b \/ (2 * rest = b /\ lo % 2 = 1) THEN lo + 1 ELSE lo,
              shift |-> k]

(* quantized[i] = Math.floor(d * multiplier) for an integer d: the product   *)
(* is exact in double precision; with an infinite multiplier it is NaN (d is  *)
(* 0) or infinite, which a Uint16Array stores as 0; any other value is        *)
(* stored modulo 2^16.                                                       *)
StoreFloor(d, multiplier) ==
    IF multiplier.inf THEN 0
    ELSE ((d * multiplier.num) \div Pow2(multiplier.shift)) % (MaxUint16 + 1)

(* The result of quantizeVec3 / quantizeVec2, with the array it was made     *)
(* from and the multiplier it was made with.  The decode matrix is            *)
(* translate(min) . scale((max - min) / 65535): scale holds max - min.        *)
quantizeVec(array, min, max, stride) ==
    LET multiplier == [j \in 1..stride |-> Float32Quotient(MaxUint16, max[j] - min[j])]
    IN  [array |-> array,
         multiplier |-> multiplier,
         quantized |-> [i \in 1..Len(array) |->
                          StoreFloor(array[i] - min[Axis(i, stride)],
                                     multiplier[Axis(i, stride)])],
         decode |-> [kind |-> "decode", translate |-> min,
                     scale |-> [j \in 1..stride |-> max[j] - min[j]]]]

quantizeVec3(array, min, max) == quantizeVec(array, min, max, 3)

quantizeVec2(array, min, max) == quantizeVec(array, min, max, 2)

(* state.positionsDecodeMatrix = quantized.decode, of an array whose values  *)
(* are given ("uint16"); otherwise the decode matrix of the attribute.        *)
DecodeMatrixOf(array, attribute) ==
    IF array.val.enc = "uint16" THEN array.val.v.decode ELSE DecodeMatrix(attribute)

(* xeogl.math.decompressPositions / decompressUVs: translate + q * scale on   *)
(* every axis, in units of 1 / 65535 for an array whose values are given.     *)
decompress(array, decode, stride) ==
    IF array.val.enc = "uint16"
    THEN Content("decoded",
                 [i \in 1..Len(array.val.v.quantized) |->
                    MaxUint16 * decode.translate[Axis(i, stride)]
                      + array.val.v.quantized[i] * decode.scale[Axis(i, stride)]])
    ELSE Content("decompressed", array.val.v)

(* octEncode(array), octEncodeVec3, octDecodeVec2 and dot, for normals of    *)
(* integers.  A projected coordinate is a fraction of the sum of the          *)
(* magnitudes of the normal; a decoded one is a fraction of OctUnit.          *)

Abs(x) == IF x < 0 THEN 0 - x ELSE x

(* (x >= 0 ? 1 : -1) *)
SignOf(x) == IF x >= 0 THEN 1 ELSE -1

(* An element of an Int8Array: the integer modulo 2^8, from -128 to 127. *)
StoreInt8(v) == ((v + 128) % 256) - 128

(* Math[func](num / den) for den > 0. *)
MathRound(func, num, den) ==
    IF func = "floor" THEN num \div den ELSE 0 - ((0 - num) \div den)

(* Math[func](x * 127.5 + (x < 0 ? -1 : 0)) for x = num / den, den > 0 *)
OctByte(func, num, den) ==
    StoreInt8(MathRound(func, 255 * num - (IF num < 0 THEN 2 * den ELSE 0), 2 * den))

(* tempx = (1 - Math.abs(y)) * (x >= 0 ? 1 : -1) and tempy likewise, of       *)
(* octEncodeVec3, in units in which 1 is one.                                *)
octFold(x, y, one) == <<(one - Abs(y)) * SignOf(x), (one - Abs(x)) * SignOf(y)>>

(* octEncodeVec3(array, i, xfunc, yfunc), i from 1: a normal of zeros        *)
(* projects to NaN, which the Int8Array stores as 0.                         *)
octEncodeVec3(array, i, xfunc, yfunc) ==
    LET sum == Abs(array[i]) + Abs(array[i + 1]) + Abs(array[i + 2])
        temp == octFold(array[i], array[i + 1], sum)
    IN  IF sum = 0 THEN <<0, 0>>
        ELSE IF array[i + 2] < 0
             THEN <<OctByte(xfunc, temp[1], sum), OctByte(yfunc, temp[2], sum)>>
             ELSE <<OctByte(xfunc, array[i], sum), OctByte(yfunc, array[i + 1], sum)>>

(* The common denominator of oct[k] / 127 and oct[k] / 128. *)
OctUnit == 127 * 128

(* x /= x < 0 ? 127 : 128, in units of 1 / OctUnit *)
OctCoord(byte) == IF byte < 0 THEN byte * 128 ELSE byte * 127

(* x = (1 - Math.abs(y)) * (x >= 0 ? 1 : -1); y = (1 - Math.abs(x)) * ...   *)
(* of octDecodeVec2, in units in which 1 is one: the second statement reads   *)
(* the x the first has assigned.                                             *)
octUnfold(x, y, one) ==
    LET x2 == (one - Abs(y)) * SignOf(x)
    IN  <<x2, (one - Abs(x2)) * SignOf(y)>>

(* octDecodeVec2(oct) before the division by the length, in units of         *)
(* 1 / OctUnit.                                                              *)
octDecodeVec2(oct) ==
    LET x == OctCoord(oct[1])
        y == OctCoord(oct[2])
        z == OctUnit - Abs(x) - Abs(y)
    IN  IF z < 0 THEN octUnfold(x, y, OctUnit) \o <<z>> ELSE <<x, y, z>>

(* dot(array, i, vec3) *)
dot(array, i, vec3) ==
    array[i] * vec3[1] + array[i + 1] * vec3[2] + array[i + 2] * vec3[3]

(* Naturals beyond 2^31 as sequences of digits, the least first. *)
BigBase == Pow2(14)

BigOf(n) ==
    <<n % BigBase, (n \div BigBase) % BigBase, n \div (BigBase * BigBase)>>

RECURSIVE BigConv(_, _, _, _)
BigConv(a, b, k, i) ==
    IF i > Len(a) \/ i > k THEN 0
    ELSE (IF k + 1 - i <= Len(b) THEN a[i] * b[k + 1 - i] ELSE 0) + BigConv(a, b, k, i + 1)

RECURSIVE BigMulFrom(_, _, _, _)
BigMulFrom(a, b, k, carry) ==
    IF k > Len(a) + Len(b) THEN <<>>
    ELSE LET sum == BigConv(a, b, k, 1) + carry
         IN  <<sum % BigBase>> \o BigMulFrom(a, b, k + 1, sum \div BigBase)

BigMul(a, b) == BigMulFrom(a, b, 1, 0)

RECURSIVE BigLessFrom(_, _, _)
BigLessFrom(a, b, k) ==
    IF k = 0 THEN FALSE
    ELSE IF a[k] # b[k] THEN a[k] < b[k]
    ELSE BigLessFrom(a, b, k - 1)

BigLess(a, b) == BigLessFrom(a, b, Len(a))

(* dot(array, i, dec) for dec = octDecodeVec2(oct): the dot product with the *)
(* vector before the division by its length, and the square of that length.  *)
OctCos(array, i, oct) ==
    LET dec == octDecodeVec2(oct)
    IN  [dot |-> dot(array, i, dec), length2 |-> dec[1] * dec[1] + dec[2] * dec[2] + dec[3] * dec[3]]

(* dot^2 * length2 of the other *)
OctCross(cos, other) ==
    BigMul(BigMul(BigOf(Abs(cos.dot)), BigOf(Abs(cos.dot))), BigOf(other.length2))

(* a.dot / sqrt(a.length2) < b.dot / sqrt(b.length2) *)
OctCosLess(a, b) ==
    IF a.dot > 0
    THEN b.dot > 0 /\ BigLess(OctCross(a, b), OctCross(b, a))
    ELSE b.dot > 0 \/ BigLess(OctCross(b, a), OctCross(a, b))

CosAtLeast(currentCos, bestCos) == ~OctCosLess(currentCos, bestCos)

(* currentCos > bestCos *)
CosExceeds(currentCos, bestCos) == OctCosLess(bestCos, currentCos)

(* The (xfunc, yfunc) of the candidates of octEncode, in its order. *)
OctFuncs ==
    << <<"floor", "floor">>, <<"ceil", "floor">>, <<"floor", "ceil">>, <<"ceil", "ceil">> >>

OctCandidate(array, i, k) == octEncodeVec3(array, i, OctFuncs[k][1], OctFuncs[k][2])

(* best, after octEncode has tried the candidates from the k-th on *)
RECURSIVE octBest(_, _, _, _)
octBest(array, i, best, k) ==
    IF k > Len(OctFuncs) THEN best
    ELSE IF CosExceeds(OctCos(array, i, OctCandidate(array, i, k)), OctCos(array, i, best))
         THEN octBest(array, i, OctCandidate(array, i, k), k + 1)
         ELSE octBest(array, i, best, k + 1)

(* octEncode(array): two bytes for every three numbers, from the i-th on. *)
RECURSIVE octEncodeFrom(_, _)
octEncodeFrom(array, i) ==
    IF i > Len(array) THEN <<>>
    ELSE octBest(array, i, OctCandidate(array, i, 1), 2) \o octEncodeFrom(array, i + 3)

octEncode(array) == octEncodeFrom(array, 1)

NullBox == [kind |-> "null", val |-> Content("null", 0), decode |-> NullMatrix]

(* positions3ToAABB3(positions, aabb, positionsDecodeMatrix) *)
positions3ToAABB3(array, decode) ==
    [kind |-> "box", val |-> array.val, decode |-> decode]

(* The first n elements of a buffer's data, and what follows them. *)
RECURSIVE TakeLen(_, _)
TakeLen(data, n) ==
    IF n <= 0 \/ data = <<>> THEN <<>>
    ELSE IF Head(data).length <= n
         THEN <<Head(data)>> \o TakeLen(Tail(data), n - Head(data).length)
         ELSE <<[Head(data) EXCEPT !.length = n]>>

RECURSIVE DropLen(_, _)
DropLen(data, n) ==
    IF data = <<>> THEN <<>>
    ELSE IF n <= 0 THEN data
    ELSE IF Head(data).length <= n
         THEN DropLen(Tail(data), n - Head(data).length)
         ELSE <<[Head(data) EXCEPT !.length = @ - n]>> \o Tail(data)

(* ArrayBuffer.setData(data, offset): the elements of the buffer from        *)
(* offset on are replaced by those of data; a write that does not fit the    *)
(* buffer leaves it.                                                        *)
setData(buf, seg, offset) ==
    IF offset + seg.length > SumLen(buf.data) THEN buf
    ELSE [buf EXCEPT !.data = TakeLen(@, offset) \o <<seg>>
                                \o DropLen(@, offset + seg.length)]

(* SceneVertexBufs.setPositions / setNormals / setUVs: chunks after the      *)
(* call, array being the attribute array of geometry g.  The offset entry    *)
(* of g exists whenever the component calls them: removeGeometry deletes it  *)
(* and no operation of the component removes its state from the pool.        *)
setAttribute(g, array, buf, stride) ==
    IF g \notin DOMAIN geometryVertexBufs THEN chunks
    ELSE IF array = NullArray THEN chunks
    ELSE IF chunks[geometryVertexBufs[g]][buf] = NullBuf THEN chunks
    ELSE IF g \notin DOMAIN geometryIndicesOffsets THEN chunks
    ELSE [chunks EXCEPT ![geometryVertexBufs[g]][buf] =
              setData(@, Pushed(g, array), geometryIndicesOffsets[g] * stride)]

setPositions(g, array) == setAttribute(g, array, "positionsBuf", 3)

setNormals(g, array) == setAttribute(g, array, "normalsBuf", 3)

setUVs(g, array) == setAttribute(g, array, "uvBuf", 2)

(* SceneVertexBufs.setColors returns at "if (!geometry.color)": the state    *)
(* has colors and no property color.                                        *)
setColors(g, array) == chunks

PrivateBuf(array, itemSize) ==
    NewArrayBuffer(array.type, <<Pushed(Self, array)>>, itemSize)

(* The fields among names that hold a buffer: assigning a new buffer to one  *)
(* of them leaves the buffer it held without an owner, no destroy() having   *)
(* been called on it.                                                        *)
Overwritten(c, names) == { name \in names : c[name] # NullBuf }

(* Geometry._buildVBOs: the component after the call. *)
_buildVBOs(c, state) ==
    LET c1 == IF state.indices # NullIndices
              THEN [c EXCEPT !.indicesBuf =
                       NewArrayBuffer(state.indices.type, state.indices.data, 1),
                             !.orphaned = @ \cup Overwritten(c, {"indicesBuf"})]
              ELSE c
    IN  IF c.combined THEN c1
        ELSE [c1 EXCEPT
                !.positionsBuf = IF state.positions # NullArray
                                 THEN PrivateBuf(state.positions, 3) ELSE @,
                !.normalsBuf = IF state.normals # NullArray
                               THEN PrivateBuf(state.normals, 3) ELSE @,
                !.colorsBuf = IF state.colors # NullArray
                              THEN PrivateBuf(state.colors, 4) ELSE @,
                !.uvBuf = IF state.uv # NullArray
                          THEN PrivateBuf(state.uv, 2) ELSE @,
                !.orphaned = @ \cup Overwritten(c,
                    (IF state.positions # NullArray THEN {"positionsBuf"} ELSE {})
                    \cup (IF state.normals # NullArray THEN {"normalsBuf"} ELSE {})
                    \cup (IF state.colors # NullArray THEN {"colorsBuf"} ELSE {})
                    \cup (IF state.uv # NullArray THEN {"uvBuf"} ELSE {}))]

(* Geometry._init stops at the indices: 32-bit ones without wide indices. *)
UnsupportedIndices(cfg) == cfg.indices = "Uint32Array" /\ ~bigIndicesSupported

(* The arrays Geometry._init(cfg) leaves in this._state. *)
_initState(cfg) ==
    LET state == GeometryState(CfgSignature(cfg), SmallVertexCount,
                               cfg.indices # "absent" /\ ~UnsupportedIndices(cfg))
    IN  IF state.indices # NullIndices
        THEN [state EXCEPT !.indices.type = cfg.indices]
        ELSE state

(* cfg.primitive = cfg.primitive || "triangles" *)
CfgPrimitive(cfg) == IF cfg.primitive = "absent" THEN "triangles" ELSE cfg.primitive

(* What Geometry._init(cfg) reports itself. *)
_initErrors(cfg) ==
    (IF CfgPrimitive(cfg) \notin SupportedPrimitives
     THEN {Report("Unsupported value for 'primitive'", Self)} ELSE {})
    \cup
    (IF UnsupportedIndices(cfg)
     THEN {Report("This WebGL implementation does not support Uint32Array", Self)}
     ELSE {})

(* What the pool's addGeometry, called by Geometry._init(cfg), reports. *)
_initWarnings(cfg, state) ==
    IF /\ Truthy(cfg.combined) /\ ~UnsupportedIndices(cfg)
       /\ (state.positions = NullArray \/ state.indices = NullIndices)
    THEN {Report("Ignoring geometry with no positions or indices", Self)}
    ELSE {}

(* The component as Geometry._init(cfg) has it before this._buildVBOs();    *)
(* reported keeps what the construction has reported.                        *)
_initFields(cfg, state) ==
    [created |-> ~UnsupportedIndices(cfg),
     destroyed |-> FALSE,
     cfg |-> cfg,
     reported |-> _initErrors(cfg) \cup _initWarnings(cfg, state),
     quantized |-> Truthy(cfg.quantized),
     combined |-> Truthy(cfg.combined),
     primitive |-> IF CfgPrimitive(cfg) \in SupportedPrimitives
                   THEN CfgPrimitive(cfg) ELSE "triangles",
     primitiveName |-> CfgPrimitive(cfg),
     _ghostEdgeThreshold |-> IF cfg.ghostEdgeThreshold.given
                                  /\ cfg.ghostEdgeThreshold.degrees # 0
                             THEN cfg.ghostEdgeThreshold.degrees
                             ELSE DefaultGhostEdgeThreshold,
     _sceneVertexBufs |-> IF Truthy(cfg.combined) /\ ~UnsupportedIndices(cfg)
                          THEN "SceneVertexBufs" ELSE "undefined",
     positionsDecodeMatrix |-> IF Truthy(cfg.quantized) /\ state.positions # NullArray
                               THEN DecodeMatrixOf(state.positions, "positions") ELSE NullMatrix,
     uvDecodeMatrix |-> IF Truthy(cfg.quantized) /\ state.uv # NullArray
                        THEN DecodeMatrixOf(state.uv, "uv") ELSE NullMatrix,
     _decompressedPositions |-> NullArray,
     _decompressedNormals |-> NullArray,
     _decompressedUV |-> NullArray,
     indicesBuf |-> IF state.indices # NullIndices
                    THEN NewArrayBuffer(state.indices.type, state.indices.data, 1)
                    ELSE NullBuf,
     positionsBuf |-> NullBuf,
     normalsBuf |-> NullBuf,
     colorsBuf |-> NullBuf,
     uvBuf |-> NullBuf,
     _edgesIndicesBuf |-> NullBuf,
     _pickTrianglePositionsBuf |-> NullBuf,
     _pickTriangleColorsBuf |-> NullBuf,
     _pickVertexPositionsBuf |-> NullBuf,
     _pickVertexColorsBuf |-> NullBuf,
     orphaned |-> {},
     released |-> {},
     _boundaryDirty |-> TRUE,
     _aabb |-> NullBox,
     _aabbDirty |-> TRUE,
     _obb |-> NullBox,
     _obbDirty |-> TRUE]

(* A constructor that goes on to this._buildVBOs() whatever the indices. *)
_initWithoutReturn(cfg, state) == _buildVBOs(_initFields(cfg, state), state)

(* Geometry._init(cfg): the component it leaves, state being its _state.     *)
(* With unsupported indices it returns before this._buildVBOs().             *)
_init(cfg, state) ==
    IF UnsupportedIndices(cfg)
    THEN _initFields(cfg, state)
    ELSE _buildVBOs(_initFields(cfg, state), state)

(* Geometry._setBoundaryDirty: the component after the call, and the events  *)
(* the call fires (_localBoundary is null throughout).                      *)
_setBoundaryDirty(c) ==
    IF c._boundaryDirty THEN c
    ELSE [c EXCEPT !._boundaryDirty = TRUE, !._aabbDirty = TRUE, !._obbDirty = TRUE]

_setBoundaryDirtyFires(c) ==
    IF c._boundaryDirty THEN {} ELSE {Report("boundary", Self)}

(* A scene with one component just constructed from cfg, state being the    *)
(* arrays the constructor has stored and others the states of the other      *)
(* geometries of the scene; the pool of its signature holds the state when   *)
(* the constructor has registered it.                                        *)
ConstructedAmong(cfg, state, others) ==
    LET sig == CfgSignature(cfg)
        pooled == Truthy(cfg.combined) /\ ~UnsupportedIndices(cfg)
        registered == pooled /\ state.positions # NullArray
                        /\ state.indices # NullIndices
    IN  /\ hasPositions = sig.hasPositions
        /\ hasNormals = sig.hasNormals
        /\ hasColors = sig.hasColors
        /\ hasUVs = sig.hasUVs
        /\ quantized = sig.quantized
        /\ geom = [id \in Ids |-> IF id = Self THEN state ELSE others[id]]
        /\ component = _init(cfg, state)
        /\ scene = NoScene
        /\ geometries = IF registered THEN {Self} ELSE {}
        /\ geometryKeys = IF registered THEN <<Self>> ELSE <<>>
        /\ geometryIndicesOffsets = IF registered THEN MapPut(EmptyMap, Self, 0)
                                    ELSE EmptyMap
        /\ newGeometries = IF registered THEN {Self} ELSE {}
        /\ needAppend = registered
        /\ insertionOrder = IF registered THEN <<Self>> ELSE <<>>
        /\ diagnostics = _initErrors(cfg) \cup _initWarnings(cfg, state)
        /\ geometryVertexBufs = EmptyMap
        /\ needRebuild = FALSE
        /\ positions = <<>>
        /\ normals = <<>>
        /\ colors = <<>>
        /\ uv = <<>>
        /\ vertexBufs = 0
        /\ chunks = <<>>
        /\ indicesBufCombined = [id \in Ids |-> NullIndices]
        /\ built = FALSE
        /\ builtOrder = <<>>
        /\ builtOffsets = EmptyMap

(* The same when the other geometries have the same arrays. *)
ConstructedFrom(cfg, state) == ConstructedAmong(cfg, state, [id \in Ids |-> state])

(* The same for any configuration of cfgs, on either platform. *)
Constructed(cfgs) ==
    /\ bigIndicesSupported \in BOOLEAN
    /\ \E cfg \in cfgs : ConstructedFrom(cfg, _initState(cfg))

InitGeometry == Constructed(Cfgs)

(* What no accessor of the component touches. *)
poolRegistry == <<geometries, geometryKeys, geometryIndicesOffsets, newGeometries,
                  geometryVertexBufs, needRebuild, needAppend, positions, normals,
                  colors, uv, vertexBufs, indicesBufCombined, insertionOrder,
                  builtOrder, builtOffsets>>

scenePlatform == <<bigIndicesSupported, hasPositions, hasNormals, hasColors, hasUVs,
                   quantized, scene>>

(* A setter call that reports an error and returns. *)
rejected(message) ==
    /\ diagnostics' = {Report(message, Self)}
    /\ UNCHANGED <<geom, component, chunks>>

(* The positions setter without its first check. *)
set_positionsOfAnyGeometry(newPositions) ==
    /\ built' = FALSE
    /\ IF geom[Self].positions = NullArray
       THEN rejected("can't update geometry positions - geometry has no positions")
       ELSE IF geom[Self].positions.length # newPositions.length
       THEN rejected("can't update geometry positions - new positions are wrong length")
       ELSE LET array == [geom[Self].positions EXCEPT !.val = Content("raw", newPositions.v)]
            IN  /\ geom' = [geom EXCEPT ![Self].positions = array]
                /\ component' = _setBoundaryDirty(
                       [component EXCEPT !.positionsBuf =
                           IF @ # NullBuf THEN setData(@, Pushed(Self, array), 0) ELSE @])
                /\ chunks' = IF component.combined THEN setPositions(Self, array) ELSE chunks
                /\ diagnostics' = _setBoundaryDirtyFires(component)
                                    \cup {Report("imageDirty", Self)}
    /\ UNCHANGED <<scenePlatform, poolRegistry>>

(* positions: set *)
set_positions(newPositions) ==
    /\ built' = FALSE
    /\ IF component.quantized
       THEN rejected("can't update geometry positions - quantized geometry is immutable")
       ELSE IF geom[Self].positions = NullArray
       THEN rejected("can't update geometry positions - geometry has no positions")
       ELSE IF geom[Self].positions.length # newPositions.length
       THEN rejected("can't update geometry positions - new positions are wrong length")
       ELSE LET array == [geom[Self].positions EXCEPT !.val = Content("raw", newPositions.v)]
            IN  /\ geom' = [geom EXCEPT ![Self].positions = array]
                /\ component' = _setBoundaryDirty(
                       [component EXCEPT !.positionsBuf =
                           IF @ # NullBuf THEN setData(@, Pushed(Self, array), 0) ELSE @])
                /\ chunks' = IF component.combined THEN setPositions(Self, array) ELSE chunks
                /\ diagnostics' = _setBoundaryDirtyFires(component)
                                    \cup {Report("imageDirty", Self)}
    /\ UNCHANGED <<scenePlatform, poolRegistry>>

(* The normals setter without its length check. *)
set_normalsOfAnyLength(newNormals) ==
    /\ built' = FALSE
    /\ IF component.quantized
       THEN rejected("can't update geometry normals - quantized geometry is immutable")
       ELSE IF geom[Self].normals = NullArray
       THEN rejected("can't update geometry normals - geometry has no normals")
       ELSE LET array == [geom[Self].normals EXCEPT !.val = Content("raw", newNormals.v)]
            IN  /\ geom' = [geom EXCEPT ![Self].normals = array]
                /\ component' = [component EXCEPT !.normalsBuf =
                       IF @ # NullBuf THEN setData(@, Pushed(Self, array), 0) ELSE @]
                /\ chunks' = IF component.combined THEN setNormals(Self, array) ELSE chunks
                /\ diagnostics' = {Report("imageDirty", Self)}
    /\ UNCHANGED <<scenePlatform, poolRegistry>>

(* normals: set *)
set_normals(newNormals) ==
    /\ built' = FALSE
    /\ IF component.quantized
       THEN rejected("can't update geometry normals - quantized geometry is immutable")
       ELSE IF geom[Self].normals = NullArray
       THEN rejected("can't update geometry normals - geometry has no normals")
       ELSE IF geom[Self].normals.length # newNormals.length
       THEN rejected("can't update geometry normals - new normals are wrong length")
       ELSE LET array == [geom[Self].normals EXCEPT !.val = Content("raw", newNormals.v)]
            IN  /\ geom' = [geom EXCEPT ![Self].normals = array]
                /\ component' = [component EXCEPT !.normalsBuf =
                       IF @ # NullBuf THEN setData(@, Pushed(Self, array), 0) ELSE @]
                /\ chunks' = IF component.combined THEN setNormals(Self, array) ELSE chunks
                /\ diagnostics' = {Report("imageDirty", Self)}
    /\ UNCHANGED <<scenePlatform, poolRegistry>>

(* uv: set *)
set_uv(newUV) ==
    /\ built' = FALSE
    /\ IF component.quantized
       THEN rejected("can't update geometry UVs - quantized geometry is immutable")
       ELSE IF geom[Self].uv = NullArray
       THEN rejected("can't update geometry UVs - geometry has no UVs")
       ELSE IF geom[Self].uv.length # newUV.length
       THEN rejected("can't update geometry UVs - new UVs are wrong length")
       ELSE LET array == [geom[Self].uv EXCEPT !.val = Content("raw", newUV.v)]
            IN  /\ geom' = [geom EXCEPT ![Self].uv = array]
                /\ component' = [component EXCEPT !.uvBuf =
                       IF @ # NullBuf THEN setData(@, Pushed(Self, array), 0) ELSE @]
                /\ chunks' = IF component.combined THEN setUVs(Self, array) ELSE chunks
                /\ diagnostics' = {Report("imageDirty", Self)}
    /\ UNCHANGED <<scenePlatform, poolRegistry>>

(* colors: set *)
set_colors(newColors) ==
    /\ built' = FALSE
    /\ IF component.quantized
       THEN rejected("can't update geometry colors - quantized geometry is immutable")
       ELSE IF geom[Self].colors = NullArray
       THEN rejected("can't update geometry colors - geometry has no colors")
       ELSE IF geom[Self].colors.length # newColors.length
       THEN rejected("can't update geometry colors - new colors are wrong length")
       ELSE LET array == [geom[Self].colors EXCEPT !.val = Content("raw", newColors.v)]
            IN  /\ geom' = [geom EXCEPT ![Self].colors = array]
                /\ component' = [component EXCEPT !.colorsBuf =
                       IF @ # NullBuf THEN setData(@, Pushed(Self, array), 0) ELSE @]
                /\ chunks' = IF component.combined THEN setColors(Self, array) ELSE chunks
                /\ diagnostics' = {Report("imageDirty", Self)}
    /\ UNCHANGED <<scenePlatform, poolRegistry>>

(* positions: get *)
get_positions ==
    /\ built' = FALSE
    /\ diagnostics' = {}
    /\ component' =
         IF geom[Self].positions = NullArray \/ ~component.quantized
              \/ component._decompressedPositions # NullArray
         THEN component
         ELSE [component EXCEPT !._decompressedPositions =
                  [type |-> "Float32Array", length |-> geom[Self].positions.length,
                   val |-> decompress(geom[Self].positions,
                                       component.positionsDecodeMatrix, 3)]]
    /\ UNCHANGED <<scenePlatform, poolRegistry, geom, chunks>>

(* normals: get *)
get_normals ==
    /\ built' = FALSE
    /\ diagnostics' = {}
    /\ component' =
         IF geom[Self].normals = NullArray \/ ~component.quantized
              \/ component._decompressedNormals # NullArray
         THEN component
         ELSE [component EXCEPT !._decompressedNormals =
                  [type |-> "Float32Array",
                   length |-> geom[Self].normals.length + (geom[Self].normals.length \div 2),
                   val |-> Content("octDecoded", geom[Self].normals.val.v)]]
    /\ UNCHANGED <<scenePlatform, poolRegistry, geom, chunks>>

(* uv: get *)
get_uv ==
    /\ built' = FALSE
    /\ diagnostics' = {}
    /\ component' =
         IF geom[Self].uv = NullArray \/ ~component.quantized
              \/ component._decompressedUV # NullArray
         THEN component
         ELSE [component EXCEPT !._decompressedUV =
                  [type |-> "Float32Array", length |-> geom[Self].uv.length,
                   val |-> decompress(geom[Self].uv, component.uvDecodeMatrix, 2)]]
    /\ UNCHANGED <<scenePlatform, poolRegistry, geom, chunks>>

(* aabb: get, of a component that has positions *)
get_aabb ==
    /\ geom[Self].positions # NullArray
    /\ built' = FALSE
    /\ diagnostics' = {}
    /\ component' =
         IF component._aabbDirty
         THEN [component EXCEPT
                 !._aabb = positions3ToAABB3(geom[Self].positions,
                                             component.positionsDecodeMatrix),
                 !._aabbDirty = FALSE]
         ELSE component
    /\ UNCHANGED <<scenePlatform, poolRegistry, geom, chunks>>

(* obb: get, of a component that has positions *)
get_obb ==
    /\ geom[Self].positions # NullArray
    /\ built' = FALSE
    /\ diagnostics' = {}
    /\ component' =
         IF component._obbDirty
         THEN [component EXCEPT
                 !._obb = positions3ToAABB3(geom[Self].positions,
                                            component.positionsDecodeMatrix),
                 !._obbDirty = FALSE]
         ELSE component
    /\ UNCHANGED <<scenePlatform, poolRegistry, geom, chunks>>

(* A call that dereferences this._sceneVertexBufs while it is undefined:   *)
(* a TypeError is thrown and what the call has not done yet stays undone.    *)
throwsTypeError ==
    /\ diagnostics' = {Report("TypeError", Self)}
    /\ built' = FALSE
    /\ UNCHANGED <<scenePlatform, poolRegistry, geom, chunks, component>>

(* Geometry._getVertexBufs *)
_getVertexBufs ==
    IF component.combined
    THEN IF component._sceneVertexBufs = "undefined"
         THEN throwsTypeError
         ELSE getVertexBufs(Self)
    ELSE /\ noBuild
         /\ UNCHANGED <<platform, geometries, geometryKeys, newGeometries,
                        insertionOrder, component>>

(* The canvas fires "webglContextRestored": the component's _buildVBOs, and  *)
(* build() of the pool that a combined component made.                       *)
canvasWebglContextRestored ==
    /\ component' = IF component.created THEN _buildVBOs(component, geom[Self])
                    ELSE component
    /\ IF component._sceneVertexBufs # "undefined" THEN build ELSE noBuild
    /\ UNCHANGED <<platform, geometries, geometryKeys, newGeometries, insertionOrder>>

----------------------------------------------------------------------------
(* The component from its construction to its destruction *)

(* positions[i] as buildFaces reads it (i counts from 0).  An array given   *)
(* as coordinates ("xyz") holds them; any other content stands for the       *)
(* points (n, n * n + v, 0), n the number of the vertex, and a quantized one *)
(* is read through math.decompressPosition, which gives these points back.   *)
PositionAt(array, i) ==
    IF array.val.enc = "xyz"
    THEN array.val.v[i + 1]
    ELSE LET n == i \div 3
         IN  CASE i % 3 = 0 -> n
               [] i % 3 = 1 -> n * n + array.val.v
               [] OTHER -> 0

subVec3(u, v) == <<u[1] - v[1], u[2] - v[2], u[3] - v[3]>>

cross3Vec3(u, v) ==
    <<u[2] * v[3] - u[3] * v[2], u[3] * v[1] - u[1] * v[3], u[1] * v[2] - u[2] * v[1]>>

dotVec3(u, v) == u[1] * v[1] + u[2] * v[2] + u[3] * v[3]

(* buildFaces: for each triangle, cross(c - b, a - b).  The face normal is   *)
(* this vector divided by its length (math.normalizeVec3), which is NaN in   *)
(* every component when the vector is zero.                                  *)
buildFaces(array, indices) ==
    [f \in 1..(Len(indices) \div 3) |->
        LET vertex(k) == LET ia == indices[3 * (f - 1) + k] * 3
                         IN  <<PositionAt(array, ia), PositionAt(array, ia + 1),
                               PositionAt(array, ia + 2)>>
            a == vertex(1)
            b == vertex(2)
            c == vertex(3)
        IN  cross3Vec3(subVec3(c, b), subVec3(a, b))]

IsNaN(cross) == cross = <<0, 0, 0>>

CosScale == 1000

(* Math.cos(DEGTORAD * degrees), in thousandths. *)
Cos(degrees) ==
    CASE degrees = 2 -> 999
      [] degrees = 10 -> 984
      [] degrees = 45 -> 707
      [] degrees = 90 -> 0
      [] degrees = 135 -> 0 - 707

(* math.dotVec3(normal1, normal2) >= thresholdDot in the place of >. *)
DotAtLeast(cross1, cross2, thresholdDot) ==
    LET n == dotVec3(cross1, cross2)
        l == dotVec3(cross1, cross1) * dotVec3(cross2, cross2)
    IN  IF IsNaN(cross1) \/ IsNaN(cross2) THEN FALSE
        ELSE IF n >= 0
        THEN thresholdDot <= 0 \/ n * n * CosScale * CosScale >= thresholdDot * thresholdDot * l
        ELSE thresholdDot < 0 /\ n * n * CosScale * CosScale <= thresholdDot * thresholdDot * l

(* math.dotVec3(normal1, normal2) > thresholdDot, the normals being cross1   *)
(* and cross2 divided by their lengths and thresholdDot in thousandths; a    *)
(* comparison with NaN is false.                                             *)
DotGreaterThan(cross1, cross2, thresholdDot) ==
    LET n == dotVec3(cross1, cross2)
        l == dotVec3(cross1, cross1) * dotVec3(cross2, cross2)
    IN  IF IsNaN(cross1) \/ IsNaN(cross2) THEN FALSE
        ELSE IF n > 0
        THEN thresholdDot < 0 \/ n * n * CosScale * CosScale > thresholdDot * thresholdDot * l
        ELSE thresholdDot < 0 /\ n * n * CosScale * CosScale < thresholdDot * thresholdDot * l

Undefined == 0 - 1

(* The edges object after the corners 1..n of indices: its entries in the   *)
(* order of their creation, which is the order of for (key in edges).  Each  *)
(* later face on an edge is stored as its face2.                             *)
RECURSIVE EdgesOf(_, _)
EdgesOf(indices, n) ==
    IF n = 0 THEN <<>>
    ELSE LET edges == EdgesOf(indices, n - 1)
             faceIndex == (n - 1) \div 3
             j == (n - 1) % 3
             edge1 == indices[3 * faceIndex + j + 1]
             edge2 == indices[3 * faceIndex + ((j + 1) % 3) + 1]
             index1 == Min(edge1, edge2)
             index2 == IF edge1 > edge2 THEN edge1 ELSE edge2
             found == { k \in 1..Len(edges) :
                          edges[k].index1 = index1 /\ edges[k].index2 = index2 }
         IN  IF found = {}
             THEN Append(edges, [index1 |-> index1, index2 |-> index2,
                                 face1 |-> faceIndex, face2 |-> Undefined])
             ELSE [k \in 1..Len(edges) |->
                      IF k \in found THEN [edges[k] EXCEPT !.face2 = faceIndex]
                      ELSE edges[k]]

(* A second loop that compares normals for every edge, taking face1 for an  *)
(* undefined face2.                                                          *)
RECURSIVE EmitEdgesComparingAll(_, _, _, _, _)
EmitEdgesComparingAll(edges, faces, indicesOffset, thresholdDot, n) ==
    IF n = 0 THEN [edgeIndices |-> <<>>, largeIndex |-> FALSE]
    ELSE LET before == EmitEdgesComparingAll(edges, faces, indicesOffset, thresholdDot,
                                             n - 1)
             e == edges[n]
             ia == e.index1 + indicesOffset
             ib == e.index2 + indicesOffset
             face2 == IF e.face2 # Undefined THEN e.face2 ELSE e.face1
         IN  IF DotGreaterThan(faces[e.face1 + 1], faces[face2 + 1], thresholdDot)
             THEN before
             ELSE [edgeIndices |-> before.edgeIndices \o <<ia, ib>>,
                   largeIndex |-> \/ before.largeIndex
                                  \/ (~before.largeIndex /\ ia > MaxUint16)
                                  \/ ib > MaxUint16]

(* A second loop that looks at the first index of an edge only to choose   *)
(* the width.                                                                *)
RECURSIVE EmitEdgesByFirstIndex(_, _, _, _, _)
EmitEdgesByFirstIndex(edges, faces, indicesOffset, thresholdDot, n) ==
    IF n = 0 THEN [edgeIndices |-> <<>>, largeIndex |-> FALSE]
    ELSE LET before == EmitEdgesByFirstIndex(edges, faces, indicesOffset, thresholdDot,
                                             n - 1)
             e == edges[n]
             ia == e.index1 + indicesOffset
             ib == e.index2 + indicesOffset
         IN  IF e.face2 # Undefined
                  /\ DotGreaterThan(faces[e.face1 + 1], faces[e.face2 + 1], thresholdDot)
             THEN before
             ELSE [edgeIndices |-> before.edgeIndices \o <<ia, ib>>,
                   largeIndex |-> before.largeIndex \/ ia > MaxUint16]

(* The second loop of buildEdgesIndices over the entries 1..n of edges:      *)
(* edgeIndices and largeIndex.                                               *)
RECURSIVE EmitEdges(_, _, _, _, _)
EmitEdges(edges, faces, indicesOffset, thresholdDot, n) ==
    IF n = 0 THEN [edgeIndices |-> <<>>, largeIndex |-> FALSE]
    ELSE LET before == EmitEdges(edges, faces, indicesOffset, thresholdDot, n - 1)
             e == edges[n]
             ia == e.index1 + indicesOffset
             ib == e.index2 + indicesOffset
         IN  IF e.face2 # Undefined
                  /\ DotGreaterThan(faces[e.face1 + 1], faces[e.face2 + 1], thresholdDot)
             THEN before
             ELSE [edgeIndices |-> before.edgeIndices \o <<ia, ib>>,
                   largeIndex |-> \/ before.largeIndex
                                  \/ (~before.largeIndex /\ ia > MaxUint16)
                                  \/ ib > MaxUint16]

(* buildEdgesIndices: the typed array it returns; a Uint16Array keeps each   *)
(* number modulo 65536.                                                      *)
buildEdgesIndices(array, indices, indicesOffset, ghostEdgeThreshold) ==
    LET faces == buildFaces(array, indices)
        edges == EdgesOf(indices, Len(indices))
        out == EmitEdges(edges, faces, indicesOffset, Cos(ghostEdgeThreshold), Len(edges))
    IN  IF out.largeIndex
        THEN [type |-> "Uint32Array", data |-> out.edgeIndices]
        ELSE [type |-> "Uint16Array",
              data |-> [i \in 1..Len(out.edgeIndices) |->
                          out.edgeIndices[i] % (MaxUint16 + 1)]]

(* The element array Geometry._buildGhostEdgesIndices puts in a buffer, with *)
(* the positions it is made from.                                            *)
EdgesIndices(state, indicesOffset, ghostEdgeThreshold) ==
    LET edgesIndices == buildEdgesIndices(state.positions, state.indices.data,
                                          indicesOffset, ghostEdgeThreshold)
    IN  <<[id |-> Self, length |-> Len(edgesIndices.data),
           val |-> Content("edges", [positions |-> state.positions.val,
                                      type |-> edgesIndices.type,
                                      data |-> edgesIndices.data])]>>

(* The arrays xeogl.math.buildPickTriangles makes, by what they are made from. *)
PickTriangles(state, attribute) ==
    <<[id |-> Self, length |-> 0,
       val |-> Content(attribute, [positions |-> state.positions.val,
                                   indices |-> state.indices.data])]>>

(* Geometry._buildPickTriangleVBOs, called by a getter that finds buf unset. *)
_buildPickTriangleVBOs(buf) ==
    /\ component' =
         IF component[buf] # NullBuf
              \/ geom[Self].positions = NullArray \/ geom[Self].indices = NullIndices
         THEN component
         ELSE [component EXCEPT
                 !._pickTrianglePositionsBuf =
                     NewArrayBuffer("ARRAY_BUFFER",
                                    PickTriangles(geom[Self], "pickTrianglePositions"), 3),
                 !._pickTriangleColorsBuf =
                     NewArrayBuffer("ARRAY_BUFFER",
                                    PickTriangles(geom[Self], "pickColors"), 4),
                 !.orphaned = @ \cup Overwritten(component,
                                  {"_pickTrianglePositionsBuf", "_pickTriangleColorsBuf"})]
    /\ noBuild
    /\ UNCHANGED <<platform, geometries, geometryKeys, newGeometries, insertionOrder>>

(* state.getGhostEdgesIndices: builds the edge indices when there are none,  *)
(* asking the pool of a combined component for its offset.                   *)
getGhostEdgesIndices ==
    IF component._edgesIndicesBuf # NullBuf
         \/ geom[Self].positions = NullArray \/ geom[Self].indices = NullIndices
    THEN /\ noBuild
         /\ UNCHANGED <<platform, geometries, geometryKeys, newGeometries,
                        insertionOrder, component>>
    ELSE IF component.combined /\ component._sceneVertexBufs = "undefined"
    THEN throwsTypeError
    ELSE /\ IF component.combined /\ (needRebuild \/ needAppend) THEN build ELSE noBuild
         /\ component' =
              [component EXCEPT !._edgesIndicesBuf =
                  NewArrayBuffer("ELEMENT_ARRAY_BUFFER",
                      EdgesIndices(geom[Self],
                                   IF component.combined
                                   THEN geometryIndicesOffsets'[Self]
                                   ELSE 0,
                                   component._ghostEdgeThreshold), 1)]
         /\ UNCHANGED <<platform, geometries, geometryKeys, newGeometries,
                        insertionOrder>>

getPickTrianglePositions == _buildPickTriangleVBOs("_pickTrianglePositionsBuf")

getPickTriangleColors == _buildPickTriangleVBOs("_pickTriangleColorsBuf")

(* state.getPickVertexPositions and state.getPickVertexColors test fields    *)
(* that nothing assigns (Geometry._buildPickVertexVBOs is commented out) and  *)
(* call this._buildPickTriangleVBOs().                                       *)
getPickVertexPositions == _buildPickTriangleVBOs("_pickVertexPositionsBuf")

getPickVertexColors == _buildPickTriangleVBOs("_pickVertexColorsBuf")

(* The fields Geometry._destroy calls destroy() on when they are set, and    *)
(* those of the private attribute buffers, which state.destroy() releases.   *)
DestroyedBufNames ==
    {"indicesBuf", "_edgesIndicesBuf", "_pickTrianglePositionsBuf",
     "_pickTriangleColorsBuf", "_pickVertexPositionsBuf", "_pickVertexColorsBuf"}

StateBufNames == {"positionsBuf", "normalsBuf", "colorsBuf", "uvBuf"}

Released(c) ==
    Overwritten(c, DestroyedBufNames \cup StateBufNames)
    \cup (IF indicesBufCombined[Self] # NullIndices THEN {"indicesBufCombined"} ELSE {})

(* A destruction that leaves the component registered with its pool. *)
_destroyKeepingRegistration ==
    /\ ~(component.combined /\ component._sceneVertexBufs = "undefined")
    /\ component' = [component EXCEPT !.destroyed = TRUE]
    /\ noBuild
    /\ UNCHANGED <<platform, geom, poolRegistry, newGeometries>>

(* Geometry._destroy, once per component: the buffers are destroyed, then    *)
(* the pool of a combined component is told to remove its state.             *)
_destroy ==
    IF component.combined /\ component._sceneVertexBufs = "undefined"
    THEN throwsTypeError
    ELSE /\ component' = [component EXCEPT !.destroyed = TRUE,
                                           !.released = Released(component)]
         /\ built' = FALSE
         /\ diagnostics' = {}
         /\ IF component.combined /\ Self \in geometries
            THEN /\ geometries' = geometries \ {Self}
                 /\ geometryKeys' = DeleteKey(geometryKeys, Self)
                 /\ geometryIndicesOffsets' = MapDelete(geometryIndicesOffsets, Self)
                 /\ needRebuild' = TRUE
                 /\ insertionOrder' = DeleteKey(insertionOrder, Self)
            ELSE UNCHANGED <<geometries, geometryKeys, geometryIndicesOffsets,
                             needRebuild, insertionOrder>>
         /\ UNCHANGED <<platform, geom, newGeometries, geometryVertexBufs, needAppend,
                        positions, normals, colors, uv, vertexBufs, chunks,
                        indicesBufCombined, builtOrder, builtOffsets>>

(* The component with its setters and what they should invalidate. *)
NextGeometry ==
    \/ \E newPositions \in NewArrays : set_positions(newPositions)
    \/ \E newNormals \in NewArrays : set_normals(newNormals)
    \/ \E newUV \in NewArrays : set_uv(newUV)
    \/ \E newColors \in NewArrays : set_colors(newColors)
    \/ get_positions
    \/ get_normals
    \/ get_uv
    \/ get_aabb
    \/ get_obb
    \/ _getVertexBufs
    \/ canvasWebglContextRestored
    \/ getPickTrianglePositions
    \/ getPickTriangleColors

SpecGeometry == InitGeometry /\ [][NextGeometry]_vars

InitConstruct == Constructed(ConstructCfgs)

(* Component.destroy calls _destroy once; nothing is asked of a destroyed     *)
(* component.                                                                *)
NextConstruct ==
    \/ ~component.destroyed /\ get_positions
    \/ ~component.destroyed /\ get_normals
    \/ ~component.destroyed /\ get_uv
    \/ ~component.destroyed /\ get_aabb
    \/ ~component.destroyed /\ get_obb
    \/ ~component.destroyed /\ _getVertexBufs
    \/ ~component.destroyed /\ canvasWebglContextRestored
    \/ ~component.destroyed /\ getGhostEdgesIndices
    \/ ~component.destroyed /\ getPickTrianglePositions
    \/ ~component.destroyed /\ getPickTriangleColors
    \/ ~component.destroyed /\ getPickVertexPositions
    \/ ~component.destroyed /\ getPickVertexColors
    \/ ~component.destroyed /\ _destroy

SpecConstruct == InitConstruct /\ [][NextConstruct]_vars

----------------------------------------------------------------------------
(* The edge indices of small meshes *)

MaxTriangles == 2

(* Four vertices: three in the plane z = 0 and a fourth one in it, above     *)
(* the second, or above the place it has in the plane.                       *)
FourthVertices == {<<1, 1, 0>>, <<1, 0, 1>>, <<1, 1, 1>>}

MeshPositions == { <<0, 0, 0, 1, 0, 0, 0, 1, 0>> \o p : p \in FourthVertices }

(* Triangles over the four vertices, each written from its lowest corner:   *)
(* the corners all different, in either winding, or the third the same as    *)
(* the first.                                                                *)
Triangles ==
    { t \in [1..3 -> 0..3] :
        /\ t[1] < t[2]
        /\ t[2] # t[3]
        /\ t[1] <= t[3] }

RECURSIVE IndexArrays(_)
IndexArrays(n) ==
    IF n = 0 THEN {<<>>}
    ELSE { indices \o t : indices \in IndexArrays(n - 1), t \in Triangles }

(* The triangles that have the edge between vertices 0 and 1. *)
OnFirstEdge == { t \in Triangles : t[1] = 0 /\ 1 \in {t[2], t[3]} }

(* Three triangles around that edge. *)
FanIndices == { t1 \o t2 \o t3 : t1 \in OnFirstEdge, t2 \in OnFirstEdge, t3 \in OnFirstEdge }

MeshIndices == UNION { IndexArrays(n) : n \in 1..MaxTriangles } \cup FanIndices

(* ghostEdgeThreshold not given, 90 or 135. *)
EdgesCfgs ==
    { cfg \in [quantized : {"false"}, combined : {"false"}, primitive : {"absent"},
               attributes : {TRUE}, indices : {"Uint16Array"},
               ghostEdgeThreshold : [given : BOOLEAN, degrees : {0, 90, 135}]] :
        cfg.ghostEdgeThreshold.given = (cfg.ghostEdgeThreshold.degrees # 0) }

(* A component constructed with one of the meshes, not quantized and not     *)
(* combined.                                                                 *)
InitEdges ==
    /\ bigIndicesSupported = TRUE
    /\ \E cfg \in EdgesCfgs, xyz \in MeshPositions, indices \in MeshIndices :
         LET state == _initState(cfg)
         IN  ConstructedFrom(cfg,
                 [state EXCEPT
                    !.positions = [type |-> "Float32Array", length |-> Len(xyz),
                                   val |-> Content("xyz", xyz)],
                    !.indices.data = indices])

NextEdges == getGhostEdgesIndices

SpecEdges == InitEdges /\ [][NextEdges]_vars

----------------------------------------------------------------------------
(* The edge indices of a combined component *)

Other == 1

(* One triangle, or the same triangle twice. *)
PoolMeshIndices == Triangles \cup { t \o t : t \in Triangles }

(* ghostEdgeThreshold not given or 90. *)
PoolEdgesCfgs ==
    { cfg \in [quantized : {"false"}, combined : {"true"}, primitive : {"absent"},
               attributes : {TRUE}, indices : {"Uint16Array"},
               ghostEdgeThreshold : [given : BOOLEAN, degrees : {0, 90}]] :
        cfg.ghostEdgeThreshold.given = (cfg.ghostEdgeThreshold.degrees # 0) }

(* A combined component constructed with one of the meshes, in a scene with  *)
(* another geometry of the same signature, small or large, which is not in   *)
(* the pool yet.                                                             *)
InitPoolEdges ==
    /\ bigIndicesSupported \in BOOLEAN
    /\ \E cfg \in PoolEdgesCfgs, xyz \in MeshPositions, indices \in PoolMeshIndices,
          nv \in VertexCounts :
         LET state == _initState(cfg)
         IN  ConstructedAmong(cfg,
                 [state EXCEPT
                    !.positions = [type |-> "Float32Array", length |-> Len(xyz),
                                   val |-> Content("xyz", xyz)],
                    !.indices.data = indices],
                 [id \in Ids |-> GeometryState(CfgSignature(cfg), nv, TRUE)])

NextPoolEdges ==
    \/ addGeometry(Other)
    \/ removeGeometry(Other)
    \/ getGhostEdgesIndices
    \/ _getVertexBufs

SpecPoolEdges == InitPoolEdges /\ [][NextPoolEdges]_vars

----------------------------------------------------------------------------
(* A combined component and the other geometries of its pool, up to and      *)
(* after the destruction of the component.                                   *)

Others == Ids \ {Self}

InitPoolDestroy == Constructed(Cfgs)

NextPoolDestroy ==
    \/ \E g \in Others : addGeometry(g)
    \/ \E g \in Others : removeGeometry(g)
    \/ \E g \in Others : getIndicesOffset(g)
    \/ \E g \in Others : getVertexBufs(g)
    \/ webglContextRestored
    \/ ~component.destroyed /\ _getVertexBufs
    \/ ~component.destroyed /\ getGhostEdgesIndices
    \/ ~component.destroyed /\ _destroy

SpecPoolDestroy == InitPoolDestroy /\ [][NextPoolDestroy]_vars

----------------------------------------------------------------------------
(* A quantized component made from positions and uv given as numbers, and    *)
(* the decompression of what the constructor has quantized.                  *)

MaxCoord == 7

Coords == 0..MaxCoord

(* The coordinates of three vertices on one axis: any, or one of a few. *)
AxisCoords == [1..3 -> Coords]

FewAxisCoords == { <<0, 5, 2>>, <<4, 4, 4>> }

Interleave3(xs, ys, zs) ==
    <<xs[1], ys[1], zs[1], xs[2], ys[2], zs[2], xs[3], ys[3], zs[3]>>

Interleave2(us, vs) == <<us[1], vs[1], us[2], vs[2], us[3], vs[3]>>

QuantizePositions ==
    { Interleave3(xs, ys, zs) : xs \in AxisCoords, ys \in FewAxisCoords, zs \in {<<4, 4, 4>>} }

QuantizeUVs ==
    { Interleave2(us, vs) : us \in {<<0, 7, 5>>, <<1, 1, 1>>}, vs \in FewAxisCoords }

QuantizeCfgs ==
    [quantized : {"true"}, combined : {"false"}, primitive : {"absent"},
     attributes : {TRUE}, indices : {"Uint16Array"},
     ghostEdgeThreshold : {[given |-> FALSE, degrees |-> 0]}]

(* Geometry._init, this._state.quantized being true: the array it stores for *)
(* cfg.positions (stride 3) or cfg.uv (stride 2).                            *)
QuantizedArray(array, stride) ==
    LET bounds == getBounds(array, stride)
    IN  [type |-> "Uint16Array", length |-> Len(array),
         val |-> Content("uint16",
                         IF stride = 3
                         THEN quantizeVec3(array, bounds.min, bounds.max)
                         ELSE quantizeVec2(array, bounds.min, bounds.max))]

InitQuantize ==
    /\ bigIndicesSupported \in BOOLEAN
    /\ \E cfg \in QuantizeCfgs, xyz \in QuantizePositions, st \in QuantizeUVs :
         \E state \in { [_initState(cfg) EXCEPT
                             !.positions = QuantizedArray(xyz, 3),
                             !.uv = QuantizedArray(st, 2)] } :
            ConstructedFrom(cfg, state)

NextQuantize ==
    \/ get_positions
    \/ get_uv

SpecQuantize == InitQuantize /\ [][NextQuantize]_vars

----------------------------------------------------------------------------
(* A quantized component made from normals given as numbers, and what the    *)
(* constructor has encoded of them.                                          *)

MaxNormal == 4

(* Normals whose projection and whose candidates' dot products the           *)
(* double-precision arithmetic of octEncode orders as exact arithmetic does:  *)
(* those whose magnitudes sum to a power of two or to zero, and a few whose   *)
(* candidates tie.                                                           *)
TiedNormals == { <<1, 1, 1>>, <<1, 1, 3>>, <<1, 3, 1>>, <<3, 1, 1>> }

OctNormals ==
    { n \in [1..3 -> (0 - MaxNormal)..MaxNormal] :
        Abs(n[1]) + Abs(n[2]) + Abs(n[3]) \in {0, 1, 2, 4, 8} }
    \cup TiedNormals

FewNormals == { <<0, 0, -1>>, <<1, 1, 1>> }

(* Geometry._init, this._state.quantized being true: the array it stores for *)
(* cfg.normals.                                                              *)
OctEncodedArray(array) ==
    [type |-> "Int8Array", length |-> (2 * Len(array)) \div 3,
     val |-> Content("int8", [array |-> array, encoded |-> octEncode(array)])]

InitOct ==
    /\ bigIndicesSupported \in BOOLEAN
    /\ \E cfg \in QuantizeCfgs, n \in OctNormals, m \in FewNormals :
         \E state \in { [_initState(cfg) EXCEPT
                             !.normals = OctEncodedArray(n \o m \o n)] } :
            ConstructedFrom(cfg, state)

NextOct ==
    \/ get_normals
    \/ get_positions

SpecOct == InitOct /\ [][NextOct]_vars

----------------------------------------------------------------------------
(* The pool with a geometry whose positions alone exceed CHUNK_LEN. *)

HugeVertexCount == 85334

InitChunk ==
    /\ bigIndicesSupported \in BOOLEAN
    /\ \E sig \in Signatures :
         /\ hasPositions = sig.hasPositions
         /\ hasNormals = sig.hasNormals
         /\ hasColors = sig.hasColors
         /\ hasUVs = sig.hasUVs
         /\ quantized = sig.quantized
         /\ geom \in [Ids -> { GeometryState(sig, nv, TRUE) :
                                 nv \in {SmallVertexCount, HugeVertexCount} }]
    /\ component = NoComponent
    /\ scene = NoScene
    /\ geometries = {}
    /\ geometryKeys = <<>>
    /\ geometryIndicesOffsets = EmptyMap
    /\ newGeometries = {}
    /\ geometryVertexBufs = EmptyMap
    /\ needRebuild = FALSE
    /\ needAppend = FALSE
    /\ positions = <<>>
    /\ normals = <<>>
    /\ colors = <<>>
    /\ uv = <<>>
    /\ vertexBufs = 0
    /\ chunks = <<>>
    /\ indicesBufCombined = [id \in Ids |-> NullIndices]
    /\ built = FALSE
    /\ diagnostics = {}
    /\ insertionOrder = <<>>
    /\ builtOrder = <<>>
    /\ builtOffsets = EmptyMap

SpecChunk == InitChunk /\ [][Next]_vars

----------------------------------------------------------------------------
(* The pools of a scene: scene._sceneVertexBufs by hash, and the combined    *)
(* components made in the scene with the pool each has obtained.  A string    *)
(* is the sequence of its characters; a pool is known by the number of the    *)
(* pools the scene had when it was made.                                      *)

SceneSignatures ==
    [hasPositions : BOOLEAN, hasNormals : BOOLEAN, hasColors : BOOLEAN,
     hasUVs : BOOLEAN, quantized : BOOLEAN]

(* this._state of a combined component, with the arrays of the signature. *)
SceneState(sig, withIndices) ==
    LET state == GeometryState(sig, SmallVertexCount, withIndices)
    IN  [positions |-> state.positions, normals |-> state.normals,
         colors |-> state.colors, uv |-> state.uv, indices |-> state.indices,
         quantized |-> sig.quantized]

SceneStates == { SceneState(sig, withIndices) : sig \in SceneSignatures, withIndices \in BOOLEAN }

(* Array.prototype.join *)
RECURSIVE Join(_, _)
Join(parts, separator) ==
    IF parts = <<>> THEN <<>>
    ELSE IF Len(parts) = 1 THEN parts[1]
    ELSE parts[1] \o separator \o Join(Tail(parts), separator)

(* A join that leaves the empty parts out. *)
HashWithoutEmptyParts(geometry) ==
    Join(SelectSeq(<<IF geometry.positions # NullArray THEN <<"p">> ELSE <<>>,
                     IF geometry.quantized THEN <<"c">> ELSE <<>>,
                     IF geometry.normals # NullArray THEN <<"n">> ELSE <<>>,
                     IF geometry.colors # NullArray THEN <<"c">> ELSE <<>>,
                     IF geometry.uv # NullArray THEN <<"u">> ELSE <<>> >>,
                   LAMBDA part : part # <<>>),
         <<";">>)

(* hash, of getSceneVertexBufs(scene, geometry) *)
Hash(geometry) ==
    Join(<<IF geometry.positions # NullArray THEN <<"p">> ELSE <<>>,
           IF geometry.quantized THEN <<"c">> ELSE <<>>,
           IF geometry.normals # NullArray THEN <<"n">> ELSE <<>>,
           IF geometry.colors # NullArray THEN <<"c">> ELSE <<>>,
           IF geometry.uv # NullArray THEN <<"u">> ELSE <<>> >>,
         <<";">>)

(* new SceneVertexBufs(scene, hasPositions, hasNormals, hasColors, hasUVs,   *)
(* quantized), the serial-th pool of the scene.                              *)
NewSceneVertexBufs(serial, geometry) ==
    [serial |-> serial,
     hasPositions |-> geometry.positions # NullArray,
     hasNormals |-> geometry.normals # NullArray,
     hasColors |-> geometry.colors # NullArray,
     hasUVs |-> geometry.uv # NullArray,
     quantized |-> geometry.quantized,
     geometries |-> {}]

(* scene._sceneVertexBufs after getSceneVertexBufs(scene, geometry), which   *)
(* returns its entry at Hash(geometry).                                      *)
getSceneVertexBufs(registry, geometry) ==
    IF Hash(geometry) \in DOMAIN registry THEN registry
    ELSE MapPut(registry, Hash(geometry),
                NewSceneVertexBufs(Cardinality(DOMAIN registry) + 1, geometry))

(* Geometry._init of a combined component id with this._state = geometry:    *)
(* the pool's addGeometry ignores a geometry without positions or indices.    *)
newGeometry(id, geometry) ==
    /\ id \notin DOMAIN scene.components
    /\ built' = FALSE
    /\ diagnostics' =
         IF geometry.positions # NullArray /\ geometry.indices # NullIndices THEN {}
         ELSE {Report("Ignoring geometry with no positions or indices", id)}
    /\ LET registry == getSceneVertexBufs(scene._sceneVertexBufs, geometry)
           accepted == geometry.positions # NullArray /\ geometry.indices # NullIndices
       IN  scene' =
             [_sceneVertexBufs |->
                 [registry EXCEPT ![Hash(geometry)].geometries =
                     IF accepted THEN @ \cup {id} ELSE @],
              components |->
                 MapPut(scene.components, id,
                        [state |-> geometry, destroyed |-> FALSE,
                         _sceneVertexBufs |-> registry[Hash(geometry)].serial])]
    /\ UNCHANGED <<bigIndicesSupported, hasPositions, hasNormals, hasColors, hasUVs,
                   quantized, geom, poolRegistry, chunks, component>>

(* Geometry._destroy of a combined component: removeGeometry on its pool. *)
destroyGeometry(id) ==
    /\ id \in DOMAIN scene.components
    /\ ~scene.components[id].destroyed
    /\ built' = FALSE
    /\ diagnostics' = {}
    /\ scene' =
         [_sceneVertexBufs |->
             [hash \in DOMAIN scene._sceneVertexBufs |->
                IF scene._sceneVertexBufs[hash].serial = scene.components[id]._sceneVertexBufs
                THEN [scene._sceneVertexBufs[hash] EXCEPT !.geometries = @ \ {id}]
                ELSE scene._sceneVertexBufs[hash]],
          components |-> [scene.components EXCEPT ![id].destroyed = TRUE]]
    /\ UNCHANGED <<bigIndicesSupported, hasPositions, hasNormals, hasColors, hasUVs,
                   quantized, geom, poolRegistry, chunks, component>>

InitScene ==
    /\ Init
    /\ bigIndicesSupported
    /\ \A id \in Ids : geom[id].indices # NullIndices

NextScene ==
    \/ \E id \in {Self, Other}, geometry \in SceneStates : newGeometry(id, geometry)
    \/ \E id \in {Self, Other} : destroyGeometry(id)

SpecScene == InitScene /\ [][NextScene]_vars

----------------------------------------------------------------------------
(* Notions the properties use *)

Pending == needRebuild \/ needAppend

VertexCount(g) == geom[g].positions.length \div 3

IndexCount(g) == Len(geom[g].indices.data)

(* The ids whose elements a buffer holds, in the order it holds them. *)
SegIds(buf) == [i \in 1..Len(buf.data) |-> buf.data[i].id]

(* The registered ids assigned to chunk k, in for-in order. *)
ChunkKeys(k) ==
    SelectSeq(geometryKeys,
              LAMBDA g : g \in DOMAIN geometryVertexBufs /\ geometryVertexBufs[g] = k)

(* The shared buffers hold the registry and nothing else: every registered  *)
(* geometry has a chunk and an offset, every chunk's positions buffer is     *)
(* made of the positions of the geometries assigned to it, one after the     *)
(* other, and each geometry's positions start at element offset * 3.         *)
LayoutIsCurrent ==
    /\ DOMAIN geometryVertexBufs = geometries
    /\ DOMAIN geometryIndicesOffsets = geometries
    /\ \A g \in geometries : geometryVertexBufs[g] \in 1..Len(chunks)
    /\ \A k \in 1..Len(chunks) :
         LET buf == chunks[k].positionsBuf
         IN  /\ SegIds(buf) = ChunkKeys(k)
             /\ \A i \in 1..Len(buf.data) :
                  /\ buf.data[i] = Pushed(buf.data[i].id, geom[buf.data[i].id].positions)
                  /\ 3 * geometryIndicesOffsets[buf.data[i].id]
                       = SumLen(SubSeq(buf.data, 1, i - 1))

MoveToEnd(order, b) == Append(DeleteKey(order, b), b)

(* The ids that precede b in a sequence of ids. *)
Before(order, b) ==
    { order[i] : i \in { j \in 1..Len(order) :
                           \E m \in (j + 1)..Len(order) : order[m] = b } }

----------------------------------------------------------------------------
(* C1: after a rebuild, for every registered geometry, every original       *)
(* index plus the geometry's offset is at most the largest value of the      *)
(* active index width, and the combined index buffer holds exactly that      *)
(* value (not a wrapped one).                                               *)
C1_AdjustedIndicesFit ==
    ~Pending =>
        \A g \in geometries : \A i \in 1..IndexCount(g) :
            /\ FitsIndexWidth(geom[g].indices.data[i] + geometryIndicesOffsets[g])
            /\ indicesBufCombined[g].data[i]
                 = geom[g].indices.data[i] + geometryIndicesOffsets[g]

(* C2: a rebuild reports an out-of-range diagnostic for every index whose   *)
(* sum with the offset is outside the range of the index width.             *)
C2_OutOfRangeReported ==
    built =>
        \A g \in geometries : \A i \in 1..IndexCount(g) :
            ~FitsIndexWidth(geom[g].indices.data[i] + geometryIndicesOffsets[g])
                => \E d \in diagnostics : d.kind = "out of range" /\ d.id = g

(* C3: three geometries A, B, C that fit one chunk, added in that order,    *)
(* get the offsets 0, |A| and |A| + |B| from the rebuild.                    *)
C3_OffsetsFollowInsertion ==
    ( /\ ~Pending
      /\ Len(insertionOrder) = 3
      /\ ~ExceedsChunkLen(geom[insertionOrder[1]].positions.length
                          + geom[insertionOrder[2]].positions.length
                          + geom[insertionOrder[3]].positions.length) )
    => /\ geometryIndicesOffsets[insertionOrder[1]] = 0
       /\ geometryIndicesOffsets[insertionOrder[2]] = VertexCount(insertionOrder[1])
       /\ geometryIndicesOffsets[insertionOrder[3]]
            = VertexCount(insertionOrder[1]) + VertexCount(insertionOrder[2])

(* C4: when B of a built pool has been removed and added again, the         *)
(* rebuild leaves the offset of every geometry that was added before B as    *)
(* the previous rebuild set it.                                             *)
C4_ReAddKeepsEarlierOffsets ==
    [][ \A b \in Ids :
          ( /\ built'
            /\ needRebuild /\ needAppend
            /\ b \in SeqToSet(builtOrder)
            /\ insertionOrder = MoveToEnd(builtOrder, b) )
          => \A a \in Before(builtOrder, b) :
                geometryIndicesOffsets'[a] = builtOffsets[a] ]_vars

(* C4 witness: A, B, C were built, B (not the last one) was removed and     *)
(* added again, and the query that rebuilds is due.                         *)
C4_Witness ==
    /\ needRebuild /\ needAppend
    /\ Len(builtOrder) = 3
    /\ insertionOrder = MoveToEnd(builtOrder, builtOrder[2])
    /\ builtOffsets[builtOrder[1]] # builtOffsets[builtOrder[3]]

(* C5: a query for a registered geometry rebuilds first when an addition    *)
(* or a removal is pending; on return nothing is pending and the returned    *)
(* buffer set and offset are those of a layout that holds exactly the        *)
(* registry.                                                                *)
C5_QueryRebuildsWhenPending ==
    [][ \A g \in geometries :
          (getVertexBufs(g) \/ getIndicesOffset(g))
          => /\ Pending => built'
             /\ ~Pending'
             /\ LayoutIsCurrent'
             /\ getVertexBufsReturn(g)' = Value("VertexBufs", geometryVertexBufs'[g])
             /\ getIndicesOffsetReturn(g)' = Value("number", geometryIndicesOffsets'[g]) ]_vars

(* C5 witness: a query has just rebuilt a pool from which a geometry of     *)
(* the previous layout had been removed.                                    *)
C5_Witness ==
    /\ built /\ ~Pending
    /\ geometries # {}
    /\ Len(builtOrder) = 2
    /\ newGeometries \ geometries # {}

(* C6: for a geometry that is not registered, getVertexBufs returns the     *)
(* null buffer set and getIndicesOffset returns a defined offset (a number   *)
(* or null, not undefined), in every state of the pool.                      *)
C6_UnregisteredGetsNull ==
    [][ \A g \in Ids \ geometries :
          /\ getVertexBufs(g) => getVertexBufsReturn(g)' = Value("nullVertexBufs", 0)
          /\ getIndicesOffset(g) => getIndicesOffsetReturn(g)'.kind # "undefined" ]_vars

(* C7: removeGeometry of a registered geometry sets needRebuild and does    *)
(* not rebuild: no shared buffer is made and the chunk and offset of every   *)
(* other registered geometry stay; of an unregistered geometry it changes    *)
(* nothing, the pending flags included.                                     *)
C7_RemoveDefersRebuild ==
    [][ \A g \in Ids :
          removeGeometry(g)
          => IF g \in geometries
             THEN /\ needRebuild'
                  /\ ~built'
                  /\ chunks' = chunks
                  /\ \A h \in geometries \ {g} :
                       /\ h \in geometries'
                       /\ getVertexBufsReturn(h)' = getVertexBufsReturn(h)
                       /\ getIndicesOffsetReturn(h)' = getIndicesOffsetReturn(h)
             ELSE UNCHANGED <<geometries, geometryKeys, geometryIndicesOffsets,
                              newGeometries, geometryVertexBufs, needRebuild,
                              needAppend, positions, normals, colors, uv,
                              vertexBufs, chunks, indicesBufCombined>> ]_vars

(* C7 witness: a geometry of the current layout has been removed, another   *)
(* is still registered, and no rebuild has run.                              *)
C7_Witness ==
    /\ needRebuild /\ ~needAppend /\ ~built
    /\ geometries # {}
    /\ \E g \in DOMAIN geometryVertexBufs : g \notin geometries

(* C8: a context-restored notification rebuilds whatever the pending flags  *)
(* are; afterwards nothing is pending and every registered geometry has the  *)
(* chunk and offset a query-triggered rebuild assigns: the step is the step  *)
(* of a query when something is pending, and it changes no chunk and no      *)
(* offset when nothing is.                                                  *)
C8_ContextRestoredRebuilds ==
    [][ webglContextRestored
        => /\ built'
           /\ ~Pending'
           /\ LayoutIsCurrent'
           /\ \A g \in geometries :
                IF Pending
                THEN getVertexBufs(g) /\ getIndicesOffset(g)
                ELSE /\ getVertexBufsReturn(g)' = getVertexBufsReturn(g)
                     /\ getIndicesOffsetReturn(g)' = getIndicesOffsetReturn(g)
                     /\ chunks' = chunks ]_vars

(* C8 witness: a rebuild has run on a pool with two registered geometries   *)
(* that had nothing pending.                                                *)
C8_Witness ==
    /\ built /\ ~Pending
    /\ Cardinality(geometries) >= 2
    /\ builtOrder = insertionOrder

(* The errors a setter of a quantized component reports. *)
ImmutableErrors ==
    { Report("can't update geometry positions - quantized geometry is immutable", Self),
      Report("can't update geometry normals - quantized geometry is immutable", Self),
      Report("can't update geometry UVs - quantized geometry is immutable", Self),
      Report("can't update geometry colors - quantized geometry is immutable", Self) }

(* C9: on a quantized component every call of the positions, normals, uv    *)
(* or colors setter, whatever the length of the new array, reports an        *)
(* error and leaves the stored arrays, the decode matrices, the cached       *)
(* decompressed arrays and the buffers as they were; quantized stays true    *)
(* in every step.                                                           *)
C9_QuantizedRejectsMutation ==
    [][ /\ component.quantized => component'.quantized
        /\ \A new \in NewArrays :
             ( /\ component.quantized
               /\ \/ set_positions(new)
                  \/ set_normals(new)
                  \/ set_uv(new)
                  \/ set_colors(new) )
             => /\ diagnostics' \subseteq ImmutableErrors
                /\ diagnostics' # {}
                /\ UNCHANGED <<geom, component, chunks, indicesBufCombined>> ]_vars

(* C9 witness: a quantized component whose decompressed positions are       *)
(* cached has just rejected a call of its positions setter.                  *)
C9_Witness ==
    /\ component.quantized
    /\ component._decompressedPositions # NullArray
    /\ Report("can't update geometry positions - quantized geometry is immutable", Self)
         \in diagnostics

(* C10: on a component that is not quantized, a setter called with an array *)
(* of another length than the stored one, or for an attribute the component  *)
(* does not have, reports an error and leaves the stored arrays, the         *)
(* private and the shared buffers and the dirty flags as they were.          *)
C10_MismatchRejected ==
    [][ \A new \in NewArrays :
          ~component.quantized
          => /\ ( /\ set_positions(new)
                  /\ (geom[Self].positions = NullArray
                         \/ geom[Self].positions.length # new.length) )
                => /\ \E d \in diagnostics' :
                        d.kind \in {"can't update geometry positions - geometry has no positions",
                                    "can't update geometry positions - new positions are wrong length"}
                   /\ UNCHANGED <<geom, component, chunks>>
             /\ ( /\ set_normals(new)
                  /\ (geom[Self].normals = NullArray
                         \/ geom[Self].normals.length # new.length) )
                => /\ \E d \in diagnostics' :
                        d.kind \in {"can't update geometry normals - geometry has no normals",
                                    "can't update geometry normals - new normals are wrong length"}
                   /\ UNCHANGED <<geom, component, chunks>>
             /\ ( /\ set_uv(new)
                  /\ (geom[Self].uv = NullArray
                         \/ geom[Self].uv.length # new.length) )
                => /\ \E d \in diagnostics' :
                        d.kind \in {"can't update geometry UVs - geometry has no UVs",
                                    "can't update geometry UVs - new UVs are wrong length"}
                   /\ UNCHANGED <<geom, component, chunks>>
             /\ ( /\ set_colors(new)
                  /\ (geom[Self].colors = NullArray
                         \/ geom[Self].colors.length # new.length) )
                => /\ \E d \in diagnostics' :
                        d.kind \in {"can't update geometry colors - geometry has no colors",
                                    "can't update geometry colors - new colors are wrong length"}
                   /\ UNCHANGED <<geom, component, chunks>> ]_vars

(* C10 witness: a component that is not quantized, whose bounding box has   *)
(* been read and whose normals have been set before, has just rejected new   *)
(* normals of a wrong length.                                               *)
C10_Witness ==
    /\ ~component.quantized
    /\ ~component._aabbDirty
    /\ geom[Self].normals.val = Content("raw", 1)
    /\ Report("can't update geometry normals - new normals are wrong length", Self)
         \in diagnostics

(* Whether a call of the positions setter with newPositions succeeds. *)
PositionsAccepted(newPositions) ==
    /\ ~component.quantized
    /\ geom[Self].positions # NullArray
    /\ geom[Self].positions.length = newPositions.length

(* C11: on a component that is not quantized, every read of aabb and of obb *)
(* returns the volume of the positions as the latest successful positions    *)
(* mutation left them, also when the volume was read before that mutation.  *)
C11_BoundaryFollowsPositions ==
    [][ ~component.quantized
        => /\ get_aabb => component'._aabb.val = geom[Self].positions.val
           /\ get_obb => component'._obb.val = geom[Self].positions.val ]_vars

(* C12: a call of the positions setter fires "boundary" when it succeeds    *)
(* and does not fire it when it is rejected.                                *)
C12_MutationFiresBoundary ==
    [][ \A new \in NewArrays :
          set_positions(new)
          => (Report("boundary", Self) \in diagnostics' <=> PositionsAccepted(new)) ]_vars

(* Whether a setter call for attribute attr with the array new succeeds. *)
Accepted(attr, new) ==
    /\ ~component.quantized
    /\ geom[Self][attr] # NullArray
    /\ geom[Self][attr].length = new.length

(* The len elements of a buffer from element position offset on. *)
Slice(buf, offset, len) == TakeLen(DropLen(buf.data, offset), len)

(* The buffer of attribute attr holds the component's array: the private     *)
(* buffer buf of a component that is not combined, and, for a combined one   *)
(* whose pool is built, the elements of the shared buffer buf of its chunk   *)
(* from offset * stride on.                                                 *)
BufferHolds(attr, buf, stride) ==
    IF ~component.combined
    THEN component[buf].data = <<Pushed(Self, geom[Self][attr])>>
    ELSE (Self \in DOMAIN geometryVertexBufs /\ ~Pending)
         => Slice(chunks[geometryVertexBufs[Self]][buf],
                  geometryIndicesOffsets[Self] * stride,
                  geom[Self][attr].length)
              = <<Pushed(Self, geom[Self][attr])>>

(* C13: a successful call of the positions, normals, uv or colors setter    *)
(* leaves the new array in the private buffer of a component that is not     *)
(* combined, and in the shared buffer of the attribute at offset * stride    *)
(* (3, 3, 2, 4) for a combined component whose pool is built.                *)
C13_MutationUpdatesBuffer ==
    [][ \A new \in NewArrays :
          /\ (set_positions(new) /\ Accepted("positions", new))
               => (geom'[Self].positions.val = Content("raw", new.v)
                     /\ BufferHolds("positions", "positionsBuf", 3)')
          /\ (set_normals(new) /\ Accepted("normals", new))
               => (geom'[Self].normals.val = Content("raw", new.v)
                     /\ BufferHolds("normals", "normalsBuf", 3)')
          /\ (set_uv(new) /\ Accepted("uv", new))
               => (geom'[Self].uv.val = Content("raw", new.v)
                     /\ BufferHolds("uv", "uvBuf", 2)')
          /\ (set_colors(new) /\ Accepted("colors", new))
               => (geom'[Self].colors.val = Content("raw", new.v)
                     /\ BufferHolds("colors", "colorsBuf", 4)') ]_vars

----------------------------------------------------------------------------
(* Construction *)

(* The configuration gives no positions or no indices. *)
LacksPositionsOrIndices(cfg) == ~cfg.attributes \/ cfg.indices = "absent"

VertexBufNames == {"positionsBuf", "normalsBuf", "colorsBuf", "uvBuf"}

(* C14: a component constructed from a configuration without positions or   *)
(* without indices has reported a diagnostic, combined or not, is not       *)
(* registered with the pool and has no vertex buffers, its own or the pool's.*)
C14_LackingRecordRejected ==
    LacksPositionsOrIndices(component.cfg)
    => /\ component.reported # {}
       /\ Self \notin geometries
       /\ Self \notin DOMAIN geometryVertexBufs
       /\ \A buf \in VertexBufNames : component[buf] = NullBuf

(* C15: a component constructed with a primitive name that is not one of    *)
(* the seven supported has reported an error, renders as triangles and its   *)
(* primitive accessor returns "triangles"; the accessor always returns a     *)
(* supported name.                                                           *)
C15_UnsupportedPrimitiveFallsBack ==
    /\ CfgPrimitive(component.cfg) \notin SupportedPrimitives
       => /\ Report("Unsupported value for 'primitive'", Self) \in component.reported
          /\ component.primitive = "triangles"
          /\ component.primitiveName = "triangles"
    /\ component.primitiveName \in SupportedPrimitives

(* C16: a component constructed without the quantized option is quantized   *)
(* and stores its positions, uv and normals compressed; without the combined *)
(* option it is not combined; without the ghostEdgeThreshold option its      *)
(* threshold is 2 degrees.                                                   *)
C16_Defaults ==
    /\ component.cfg.quantized = "absent"
       => /\ component.quantized
          /\ geom[Self].positions # NullArray => geom[Self].positions.val.enc = "quantized"
          /\ geom[Self].uv # NullArray => geom[Self].uv.val.enc = "quantized"
          /\ geom[Self].normals # NullArray => geom[Self].normals.val.enc = "oct"
    /\ component.cfg.combined = "absent" => ~component.combined
    /\ ~component.cfg.ghostEdgeThreshold.given
       => component._ghostEdgeThreshold = DefaultGhostEdgeThreshold
(* C17: a component constructed with Uint32Array indices where wide        *)
(* indices are not supported has reported the error, stores no indices, has  *)
(* no index buffer and no vertex buffers, and is registered with no pool.    *)
C17_UnsupportedIndicesUnusable ==
    UnsupportedIndices(component.cfg)
    => /\ Report("This WebGL implementation does not support Uint32Array", Self)
            \in component.reported
       /\ geom[Self].indices = NullIndices
       /\ component.indicesBuf = NullBuf
       /\ indicesBufCombined[Self] = NullIndices
       /\ \A buf \in VertexBufNames : component[buf] = NullBuf
       /\ Self \notin geometries
       /\ Self \notin DOMAIN geometryVertexBufs

C17_Witness ==
    /\ UnsupportedIndices(component.cfg)
    /\ component.cfg.attributes
    /\ component.cfg.combined = "true"
    /\ ~component.created
(* C18: once the construction of a component has reported something, no     *)
(* later call on it (an attribute read, _getVertexBufs, a request for the    *)
(* edge or pick buffers, destroy) throws, combined or not.                   *)
C18_NoExceptionAfterReportedConstruction ==
    [][ component.reported # {} => Report("TypeError", Self) \notin diagnostics' ]_vars
----------------------------------------------------------------------------
(* Edge indices *)

EdgesBuilt == component._edgesIndicesBuf # NullBuf

(* The unordered pairs of vertex indices in the edge array of the buffer. *)
OutputPairs ==
    LET data == component._edgesIndicesBuf.data[1].val.v.data
    IN  { {data[2 * k - 1], data[2 * k]} : k \in 1..(Len(data) \div 2) }

MeshFaces == 1..(Len(geom[Self].indices.data) \div 3)

(* The edges of triangle f of the mesh, as unordered pairs. *)
TriangleEdges(f) ==
    LET corner(k) == geom[Self].indices.data[3 * (f - 1) + k]
    IN  { {corner(1), corner(2)}, {corner(2), corner(3)}, {corner(3), corner(1)} }

MeshEdges == UNION { TriangleEdges(f) : f \in MeshFaces }

FacesOn(e) == { f \in MeshFaces : e \in TriangleEdges(f) }

(* The dot product of the unit normals of faces f1 and f2 is greater than    *)
(* the cosine of the threshold of the component (never so for a normal that  *)
(* is not a number).                                                         *)
NormalsDotExceedsThreshold(f1, f2) ==
    LET faces == buildFaces(geom[Self].positions, geom[Self].indices.data)
        u == faces[f1]
        v == faces[f2]
        n == dotVec3(u, v)
        l == dotVec3(u, u) * dotVec3(v, v)
        t == Cos(component._ghostEdgeThreshold)
        nn == n * n * CosScale * CosScale
        tt == t * t * l
    IN  /\ l # 0
        /\ \/ n > 0 /\ t < 0
           \/ n > 0 /\ t >= 0 /\ nn > tt
           \/ n <= 0 /\ t < 0 /\ nn < tt

(* C19: every edge that belongs to exactly one triangle of the mesh is in   *)
(* the edge indices built, whatever the threshold; when every edge of the    *)
(* mesh belongs to one triangle only, the pairs built are the edges of the   *)
(* mesh and nothing else.                                                    *)
C19_BoundaryEdgesIncluded ==
    EdgesBuilt
    => /\ \A e \in MeshEdges : Cardinality(FacesOn(e)) = 1 => e \in OutputPairs
       /\ (\A e \in MeshEdges : Cardinality(FacesOn(e)) = 1) => OutputPairs = MeshEdges

(* Two triangles in a plane, wound the same way: the four edges around them  *)
(* are built and the one they share is not.                                  *)
C19_Witness ==
    /\ EdgesBuilt
    /\ geom[Self].indices.data = <<0, 1, 2, 1, 3, 2>>
    /\ geom[Self].positions.val.v = <<0, 0, 0, 1, 0, 0, 0, 1, 0, 1, 1, 0>>
    /\ OutputPairs = {{0, 1}, {0, 2}, {1, 3}, {2, 3}}

Least(S) == CHOOSE x \in S : \A y \in S : x <= y

(* C21: for an edge that belongs to more than two triangles, the edge is    *)
(* in the edge indices built if and only if the dot product of the normals   *)
(* of the first two of them, in the order of the index array, is not         *)
(* greater than the cosine of the threshold; the later ones do not count.    *)
C21_FirstTwoFacesDecide ==
    EdgesBuilt
    => \A e \in MeshEdges :
         Cardinality(FacesOn(e)) > 2
         => LET f1 == Least(FacesOn(e))
                f2 == Least(FacesOn(e) \ {f1})
            IN  e \in OutputPairs <=> ~NormalsDotExceedsThreshold(f1, f2)

(* The typed array in the edge buffer of component c. *)
EdgeArray(c) == c._edgesIndicesBuf.data[1].val.v

(* C22: when getGhostEdgesIndices builds the edge indices, the array is a   *)
(* Uint32Array if and only if one of the indices in it, an index of the      *)
(* mesh plus the offset of the component, is greater than 65535; every pair  *)
(* in it is an edge of the mesh with the offset added to both ends, so no    *)
(* index has lost its high bits.                                             *)
C22_WidthFollowsIndices ==
    [][ (~EdgesBuilt /\ EdgesBuilt')
        => LET array == EdgeArray(component')
               indicesOffset == IF component.combined THEN geometryIndicesOffsets'[Self]
                                ELSE 0
           IN  /\ array.type = "Uint32Array"
                    <=> \E i \in 1..Len(array.data) : array.data[i] > MaxUint16
               /\ \A k \in 1..(Len(array.data) \div 2) :
                    \E e \in MeshEdges :
                       {array.data[2 * k - 1], array.data[2 * k]}
                         = { v + indicesOffset : v \in e } ]_vars

(* Edge indices built behind a large geometry: a wide array with an index    *)
(* above 65535 and one not above it.                                         *)
C22_Witness ==
    /\ EdgesBuilt
    /\ EdgeArray(component).type = "Uint32Array"
    /\ \E i \in 1..Len(EdgeArray(component).data) :
         EdgeArray(component).data[i] > MaxUint16
    /\ \E i \in 1..Len(EdgeArray(component).data) :
         EdgeArray(component).data[i] <= MaxUint16

(* C23: a request for the pick buffers of a component that has positions    *)
(* and indices returns buffers built from the positions it has at the time   *)
(* of the request, also after the positions have been changed.               *)
C23_PickBuffersFollowPositions ==
    [][ (geom[Self].positions # NullArray /\ geom[Self].indices # NullIndices)
        => /\ getPickTrianglePositions
              => component'._pickTrianglePositionsBuf.data
                   = PickTriangles(geom[Self], "pickTrianglePositions")
           /\ getPickTriangleColors
              => component'._pickTriangleColorsBuf.data
                   = PickTriangles(geom[Self], "pickColors") ]_vars

(* C24: destroying a combined component takes it out of its pool and marks  *)
(* the pool for a rebuild without rebuilding it; every rebuild after that,   *)
(* from a query or from a restored context, lays out the remaining           *)
(* geometries only, with offsets that count none of its vertices.            *)
C24_DestroyedRecordLeavesPool ==
    [][ /\ (~component.destroyed /\ component'.destroyed /\ Self \in geometries)
           => /\ Self \notin geometries'
              /\ Self \notin DOMAIN geometryIndicesOffsets'
              /\ needRebuild'
              /\ ~built'
              /\ chunks' = chunks
              /\ geometryVertexBufs' = geometryVertexBufs
        /\ (component'.destroyed /\ component.combined /\ built')
           => /\ Self \notin DOMAIN geometryVertexBufs'
              /\ Self \notin DOMAIN geometryIndicesOffsets'
              /\ LayoutIsCurrent' ]_vars

C24_Witness ==
    /\ component.destroyed /\ component.combined /\ built
    /\ \E g \in geometries :
         /\ ~IsArrayIndex(g)
         /\ geometryIndicesOffsets[g] = 0
         /\ geometryVertexBufs[g] \in 1..Len(chunks)

(* The fields of the component that hold buffers it has created. *)
OwnBufNames == DestroyedBufNames \cup StateBufNames

(* C25: when a component has been destroyed, destroy() has been called on    *)
(* every buffer it created: on those its fields hold, on its combined index   *)
(* buffer, and on those that were replaced during its life.                  *)
C25_BuffersReleasedByDestroy ==
    component.destroyed
    => /\ component.orphaned = {}
       /\ \A name \in OwnBufNames :
            component[name] # NullBuf => name \in component.released
       /\ indicesBufCombined[Self] # NullIndices
            => "indicesBufCombined" \in component.released

(* The buffers of the chunks on which a call of build() calls destroy():    *)
(* build() and createBufs() assign new VertexBufs and new ArrayBuffers and    *)
(* call destroy() on nothing.                                                *)
buildDestroys == {}

(* The buffers the chunks of the pool hold, by chunk and field. *)
ChunkBufs ==
    { kn \in (1..Len(chunks)) \X VertexBufNames :
        chunks[kn[1]][kn[2]] # NullBuf }

(* C26: a rebuild of the pool releases the buffers the chunks held before    *)
(* it, all of which it replaces, so that the buffers of the current chunks    *)
(* are the only live ones.                                                   *)
C26_RebuildReleasesOldBuffers ==
    [][ built' => ChunkBufs \subseteq buildDestroys ]_vars

(* C27: once the edge buffer, or the pick buffers, of a component exist, a   *)
(* further request through any of the getters for them returns what there    *)
(* is: it leaves the buffers of the component as they are and creates none.  *)
C27_LazyGettersBuildOnce ==
    [][ /\ (component._edgesIndicesBuf # NullBuf /\ getGhostEdgesIndices)
           => component' = component
        /\ (/\ component._pickTrianglePositionsBuf # NullBuf
            /\ component._pickTriangleColorsBuf # NullBuf
            /\ \/ getPickTrianglePositions
               \/ getPickTriangleColors
               \/ getPickVertexPositions
               \/ getPickVertexColors)
           => component' = component ]_vars

(* The arrays of the component that are quantized from given numbers, with   *)
(* their stride and, once requested, their decompression.                    *)
QuantizedAttributes ==
    { a \in { [array |-> geom[Self].positions, stride |-> 3,
               decompressed |-> component._decompressedPositions],
              [array |-> geom[Self].uv, stride |-> 2,
               decompressed |-> component._decompressedUV] } :
        a.array.val.enc = "uint16" /\ a.decompressed # NullArray }

(* The difference of decompressed element i from the element it was          *)
(* quantized from, in units of 1 / 65535, and the extent of its axis.        *)
DecodeError(a, i) == Abs(a.decompressed.val.v[i] - MaxUint16 * a.array.val.v.array[i])

Extent(a, i) == a.array.val.v.decode.scale[Axis(i, a.stride)]

(* C28: on every axis that is not constant, the decompressed value of every  *)
(* element is within one step (max - min) / 65535 of the element; every       *)
(* quantized value is in 0..65535, that of an axis minimum is 0 and that of   *)
(* an axis maximum is 65535.                                                 *)
C28_RoundTripWithinOneStep ==
    \A a \in QuantizedAttributes :
       \A i \in 1..Len(a.array.val.v.array) :
          LET q == a.array.val.v
              bounds == getBounds(q.array, a.stride)
              j == Axis(i, a.stride)
          IN  bounds.max[j] > bounds.min[j]
              => /\ DecodeError(a, i) <= Extent(a, i)
                 /\ q.quantized[i] \in 0..MaxUint16
                 /\ q.array[i] = bounds.min[j] => q.quantized[i] = 0
                 /\ q.array[i] = bounds.max[j] => q.quantized[i] = MaxUint16

(* C29: the decompressed value of every element of a quantized array is      *)
(* within half a step (max - min) / 65535 of the element.                     *)
C29_RoundTripWithinHalfStep ==
    \A a \in QuantizedAttributes :
       \A i \in 1..Len(a.array.val.v.array) :
          2 * DecodeError(a, i) <= Extent(a, i)

(* C30: on a constant axis nothing is divided by zero: the multiplier is     *)
(* finite and the decode scale is that of an extent of 1; the quantized       *)
(* values are numbers of 0..65535 and decompress to the constant.            *)
C30_ConstantAxisHasUnitScale ==
    \A a \in QuantizedAttributes :
       \A i \in 1..Len(a.array.val.v.array) :
          LET q == a.array.val.v
              bounds == getBounds(q.array, a.stride)
              j == Axis(i, a.stride)
          IN  bounds.max[j] = bounds.min[j]
              => /\ ~q.multiplier[j].inf
                 /\ q.decode.scale[j] = 1
                 /\ q.quantized[i] \in 0..MaxUint16
                 /\ DecodeError(a, i) = 0

(* The normals the constructor was given and the bytes it has stored. *)
GivenNormals == geom[Self].normals.val.v.array

EncodedNormal(j) ==
    <<geom[Self].normals.val.v.encoded[2 * j - 1], geom[Self].normals.val.v.encoded[2 * j]>>

NormalAt(j) == 3 * (j - 1) + 1

(* C31: the two bytes stored for every normal are one of the four floor/ceil *)
(* candidates, no candidate reconstructs the normal with a greater dot       *)
(* product, and every candidate earlier in the order (floor,floor),          *)
(* (ceil,floor), (floor,ceil), (ceil,ceil) reconstructs it with a smaller    *)
(* one.                                                                      *)
C31_EncoderKeepsEarliestBestCandidate ==
    \A j \in 1..(Len(GivenNormals) \div 3) :
       \E k \in 1..Len(OctFuncs) :
          /\ EncodedNormal(j) = OctCandidate(GivenNormals, NormalAt(j), k)
          /\ \A l \in 1..Len(OctFuncs) :
                ~OctCosLess(OctCos(GivenNormals, NormalAt(j), EncodedNormal(j)),
                            OctCos(GivenNormals, NormalAt(j),
                                   OctCandidate(GivenNormals, NormalAt(j), l)))
          /\ \A l \in 1..(k - 1) :
                OctCosLess(OctCos(GivenNormals, NormalAt(j),
                                  OctCandidate(GivenNormals, NormalAt(j), l)),
                           OctCos(GivenNormals, NormalAt(j), EncodedNormal(j)))

(* A normal whose second and third candidates differ and tie for the best,   *)
(* stored as the second, and one whose last candidate alone is the best.      *)
C31_Witness ==
    /\ component._decompressedNormals # NullArray
    /\ SubSeq(GivenNormals, 1, 3) = <<1, 1, 1>>
    /\ EncodedNormal(1) = OctCandidate(GivenNormals, 1, 2)
    /\ OctCandidate(GivenNormals, 1, 2) # OctCandidate(GivenNormals, 1, 3)
    /\ ~OctCosLess(OctCos(GivenNormals, 1, OctCandidate(GivenNormals, 1, 3)),
                   OctCos(GivenNormals, 1, EncodedNormal(1)))
    /\ EncodedNormal(2) = OctCandidate(GivenNormals, 4, 4)
    /\ EncodedNormal(2) \notin { OctCandidate(GivenNormals, 4, l) : l \in 1..3 }

(* The sum of the magnitudes of the j-th given normal. *)
NormalSum(j) ==
    Abs(GivenNormals[NormalAt(j)]) + Abs(GivenNormals[NormalAt(j) + 1])
      + Abs(GivenNormals[NormalAt(j) + 2])

(* C37: for every given normal with z < 0, projected to (x, y), the          *)
(* decoder's un-folding of the encoder's folded pair is (x, y) again.         *)
C37_UnfoldInvertsFold ==
    \A j \in 1..(Len(GivenNormals) \div 3) :
       GivenNormals[NormalAt(j) + 2] < 0 =>
          LET x == GivenNormals[NormalAt(j)]
              y == GivenNormals[NormalAt(j) + 1]
              folded == octFold(x, y, NormalSum(j))
          IN  octUnfold(folded[1], folded[2], NormalSum(j)) = <<x, y>>

(* C32: after any rebuild the positions accumulated in every chunk are at    *)
(* most CHUNK_LEN long, and the first geometry of every chunk has offset 0.   *)
C32_ChunksWithinCapacity ==
    built =>
       \A k \in 1..Len(chunks) :
          /\ ~ExceedsChunkLen(SumLen(chunks[k].positionsBuf.data))
          /\ chunks[k].positionsBuf.data # <<>>
               => geometryIndicesOffsets[chunks[k].positionsBuf.data[1].id] = 0

(* (has positions, quantized, has normals, has colors, has UVs) of a state   *)
(* or of a pool.                                                             *)
SignatureOfState(state) ==
    <<state.positions # NullArray, state.quantized, state.normals # NullArray,
      state.colors # NullArray, state.uv # NullArray>>

SignatureOfPool(pool) ==
    <<pool.hasPositions, pool.quantized, pool.hasNormals, pool.hasColors, pool.hasUVs>>

(* C36: two combined components of the scene have obtained the same pool     *)
(* exactly when their states agree on (has positions, quantized, has         *)
(* normals, has colors, has UVs); the pool holds the live ones it has        *)
(* accepted and no others; states of distinct signatures have distinct       *)
(* hashes; and no two pools of the scene have the same signature.            *)
C36_OnePoolPerSignature ==
    /\ \A a, b \in DOMAIN scene.components :
          (scene.components[a]._sceneVertexBufs = scene.components[b]._sceneVertexBufs)
            <=> (SignatureOfState(scene.components[a].state)
                   = SignatureOfState(scene.components[b].state))
    /\ \A a \in DOMAIN scene.components, hash \in DOMAIN scene._sceneVertexBufs :
          a \in scene._sceneVertexBufs[hash].geometries
            <=> /\ scene._sceneVertexBufs[hash].serial = scene.components[a]._sceneVertexBufs
                /\ ~scene.components[a].destroyed
                /\ scene.components[a].state.positions # NullArray
                /\ scene.components[a].state.indices # NullIndices
    /\ \A a \in DOMAIN scene.components, state \in SceneStates :
          Hash(scene.components[a].state) = Hash(state)
            => SignatureOfState(scene.components[a].state) = SignatureOfState(state)
    /\ \A g, h \in DOMAIN scene._sceneVertexBufs :
          SignatureOfPool(scene._sceneVertexBufs[g]) = SignatureOfPool(scene._sceneVertexBufs[h])
            => g = h

(* Two live components in two pools, one quantized without colors, the other *)
(* with colors and not quantized, alike otherwise.                           *)
C36_Witness ==
    /\ DOMAIN scene.components = {Self, Other}
    /\ SignatureOfState(scene.components[Self].state) = <<TRUE, TRUE, TRUE, FALSE, TRUE>>
    /\ SignatureOfState(scene.components[Other].state) = <<TRUE, FALSE, TRUE, TRUE, TRUE>>
    /\ scene.components[Self]._sceneVertexBufs # scene.components[Other]._sceneVertexBufs
    /\ \E hash \in DOMAIN scene._sceneVertexBufs :
          scene._sceneVertexBufs[hash].geometries = {Self}
    /\ \E hash \in DOMAIN scene._sceneVertexBufs :
          scene._sceneVertexBufs[hash].geometries = {Other}

(* The attributes the pool carries, each with the elements it has for a      *)
(* vertex, the buffer of chunk k and the array of geometry g.                 *)
PoolAttributes ==
    (IF hasPositions THEN {"positions"} ELSE {}) \cup (IF hasNormals THEN {"normals"} ELSE {})
      \cup (IF hasColors THEN {"colors"} ELSE {}) \cup (IF hasUVs THEN {"uv"} ELSE {})

AttributeStride(a) ==
    CASE a = "positions" -> 3
      [] a = "normals" -> IF quantized THEN 2 ELSE 3
      [] a = "colors" -> 4
      [] a = "uv" -> 2

AttributeBuf(k, a) ==
    CASE a = "positions" -> chunks[k].positionsBuf
      [] a = "normals" -> chunks[k].normalsBuf
      [] a = "colors" -> chunks[k].colorsBuf
      [] a = "uv" -> chunks[k].uvBuf

AttributeArray(g, a) ==
    CASE a = "positions" -> geom[g].positions
      [] a = "normals" -> geom[g].normals
      [] a = "colors" -> geom[g].colors
      [] a = "uv" -> geom[g].uv

(* C33: after any rebuild every registered geometry has a chunk, and for     *)
(* every attribute the pool carries the chunk's buffer is made of the arrays *)
(* of the geometries assigned to the chunk, each once and one after the      *)
(* other (so that they do not overlap), the array of g starting at element   *)
(* offset(g) * stride, and of nothing else.                                  *)
C33_BuffersHoldTheGeometries ==
    built =>
       /\ DOMAIN geometryVertexBufs = geometries
       /\ \A g \in geometries : geometryVertexBufs[g] \in 1..Len(chunks)
       /\ \A k \in 1..Len(chunks), a \in PoolAttributes :
            LET buf == AttributeBuf(k, a)
            IN  /\ SeqToSet(SegIds(buf)) = SeqToSet(ChunkKeys(k))
                /\ Len(buf.data) = Len(ChunkKeys(k))
                /\ \A i \in 1..Len(buf.data) :
                     /\ buf.data[i] = Pushed(buf.data[i].id,
                                             AttributeArray(buf.data[i].id, a))
                     /\ AttributeStride(a) * geometryIndicesOffsets[buf.data[i].id]
                          = SumLen(SubSeq(buf.data, 1, i - 1))

(* A rebuild has laid three geometries out in two chunks, one of them after  *)
(* another in its chunk.                                                     *)
C33_Witness ==
    /\ built
    /\ Cardinality(geometries) = 3
    /\ Len(chunks) = 2
    /\ \E g \in geometries : geometryIndicesOffsets[g] > 0
    /\ PoolAttributes = {"positions", "normals", "colors", "uv"}

(* C38: whenever no addition and no removal is pending, the geometries with  *)
(* a chunk and the geometries with an offset are the registered ones, each   *)
(* with one offset, a number; and after a rebuild a geometry that is not     *)
(* registered has neither a chunk nor an offset.                             *)
C38_AssignedAreTheRegistered ==
    /\ ~Pending =>
          /\ DOMAIN geometryVertexBufs = geometries
          /\ DOMAIN geometryIndicesOffsets = geometries
          /\ \A g \in geometries :
                /\ geometryIndicesOffsets[g] \in Nat
                /\ geometryVertexBufs[g] \in 1..Len(chunks)
    /\ built =>
          \A g \in Ids \ geometries :
             g \notin DOMAIN geometryVertexBufs /\ g \notin DOMAIN geometryIndicesOffsets

(* A rebuild has run after the removal of a geometry that an earlier rebuild *)
(* had laid out, with another geometry still registered.                     *)
C38_Witness ==
    /\ built
    /\ ~Pending
    /\ geometries # {}
    /\ \E g \in Ids \ geometries :
          /\ indicesBufCombined[g] # NullIndices
          /\ g \notin DOMAIN geometryVertexBufs

(* C34: addGeometry does not rebuild and leaves the chunks and the           *)
(* assignments as they are; a query for a registered geometry rebuilds       *)
(* exactly when an addition or a removal is pending and leaves nothing       *)
(* pending, so that the first query after any number of additions rebuilds   *)
(* once; and a query with nothing pending leaves the chunks alone and        *)
(* returns the buffer set and the offset a query returned before it.         *)
C34_OneRebuildPerBatch ==
    [][ /\ \A g \in Ids :
             addGeometry(g)
             => /\ ~built'
                /\ UNCHANGED <<chunks, geometryVertexBufs, vertexBufs, indicesBufCombined,
                               positions, normals, colors, uv>>
        /\ \A g \in geometries :
             (getVertexBufs(g) \/ getIndicesOffset(g))
             => /\ built' <=> Pending
                /\ ~Pending'
                /\ ~Pending
                     => /\ UNCHANGED <<chunks, geometryVertexBufs, geometryIndicesOffsets>>
                        /\ getVertexBufsReturn(g)' = getVertexBufsReturn(g)
                        /\ getIndicesOffsetReturn(g)' = getIndicesOffsetReturn(g)
                        /\ getVertexBufsReturn(g).kind = "VertexBufs"
                        /\ getIndicesOffsetReturn(g).kind = "number" ]_vars

(* Three geometries were added and laid out by one rebuild, and the latest   *)
(* call has not rebuilt.                                                     *)
C34_Witness ==
    /\ ~built
    /\ ~Pending
    /\ Cardinality(geometries) = 3
    /\ newGeometries = geometries
    /\ DOMAIN geometryVertexBufs = geometries
    /\ builtOrder = insertionOrder

(* The ids in the order in which the latest rebuild has pushed their         *)
(* positions, over the chunks from the k-th on.                              *)
RECURSIVE ProcessedFrom(_)
ProcessedFrom(k) ==
    IF k > Len(chunks) THEN <<>>
    ELSE SegIds(chunks[k].positionsBuf) \o ProcessedFrom(k + 1)

(* C35: a rebuild processes the registered geometries in the order in which  *)
(* they were added, whatever their ids.                                      *)
C35_RebuildFollowsInsertionOrder ==
    built => ProcessedFrom(1) = insertionOrder

(* C39: the buffer getGhostEdgesIndices returns to a combined component      *)
(* with nothing pending on its pool holds the edges of the mesh with the     *)
(* offset the pool has for the component now added to both ends.             *)
C39_EdgesFollowTheOffset ==
    [][ (getGhostEdgesIndices /\ component.combined /\ EdgesBuilt' /\ ~Pending'
           /\ Self \in geometries')
        => \A k \in 1..(Len(EdgeArray(component').data) \div 2) :
              \E e \in MeshEdges :
                 {EdgeArray(component').data[2 * k - 1], EdgeArray(component').data[2 * k]}
                   = { v + geometryIndicesOffsets'[Self] : v \in e } ]_vars
====
